---- MODULE Spec2Model ----
(***************************************************************************)
(* Model of the nx workspace migration planner (migrate.ts): the Migrator  *)
(* class, its version helpers, and the asynchronous traversal that builds  *)
(* packageJsonUpdates and the migration list.                              *)
(*                                                                         *)
(* A version string is modelled by its tokens: the sequence p of the       *)
(* dot-separated parts of the text before the first '-', and pre, the rank *)
(* of the prerelease tag after it (0: none).  A part >= 0 is that number;  *)
(* a part < 0 is a non-numeric word: latest, next, or the star wildcard.   *)
(***************************************************************************)
EXTENDS Integers, Sequences, FiniteSets, TLC

\* ------------------------------------------------------------------------
\* Version strings

\* the words 'latest', 'next' and '*' as parts of a version string
TagLatest == -1
TagNext == -2
TagStar == -3
\* a part that is another non-numeric word, such as '^15' of a range
TagWord == -4

Ver(a, b, c) == [p |-> <<a, b, c>>, pre |-> 0]
PreVer(a, b, c, k) == [p |-> <<a, b, c>>, pre |-> k]
Short2(a, b) == [p |-> <<a, b>>, pre |-> 0]
Short1(a) == [p |-> <<a>>, pre |-> 0]
LATEST == Short1(TagLatest)
NEXT == Short1(TagNext)
STAR == Short1(TagStar)
\* undefined / null / '' : no version
Null == [p |-> <<>>, pre |-> 0]
Zero == Ver(0, 0, 0)

\* semver.valid: three numeric parts
Valid(v) == Len(v.p) = 3 /\ \A i \in 1..3 : v.p[i] >= 0

\* semver.compare on two valid versions: -1, 0, 1.  A prerelease sorts below
\* its release; two prereleases by rank.
Compare(a, b) ==
  IF a.p[1] # b.p[1] THEN (IF a.p[1] < b.p[1] THEN -1 ELSE 1)
  ELSE IF a.p[2] # b.p[2] THEN (IF a.p[2] < b.p[2] THEN -1 ELSE 1)
  ELSE IF a.p[3] # b.p[3] THEN (IF a.p[3] < b.p[3] THEN -1 ELSE 1)
  ELSE IF a.pre = b.pre THEN 0
  ELSE IF a.pre = 0 THEN 1
  ELSE IF b.pre = 0 THEN -1
  ELSE IF a.pre < b.pre THEN -1 ELSE 1

\* `part || 0` of normalizeVersion: a missing part reads as 0
PartOr0(v, i) == IF Len(v.p) >= i THEN v.p[i] ELSE 0

\* `gt(variation, '0.0.0')` without throwing: a valid semver above 0.0.0
Positive(x) == Valid(x) /\ Compare(x, Zero) = 1

\* the first variation that is Positive, else 0.0.0
FirstPositive(variationsToCheck) ==
  IF \E i \in 1..4 : Positive(variationsToCheck[i])
  THEN variationsToCheck[CHOOSE i \in 1..4 :
         /\ Positive(variationsToCheck[i])
         /\ \A j \in 1..(i - 1) : ~Positive(variationsToCheck[j])]
  ELSE Zero

\* [newVersion, newSemver, withoutPatch, withoutPatchAndMinor]
Variations(major, minor, patch, pre) ==
  <<IF pre # 0 THEN PreVer(major, minor, patch, pre) ELSE Ver(major, minor, patch),
    Ver(major, minor, patch), Ver(major, minor, 0), Ver(major, 0, 0)>>

\* normalizeVersion: the first of {full, semver only, x.y.0, x.0.0} that is a
\* valid semver greater than 0.0.0, else 0.0.0
normalizeVersion(v) ==
  FirstPositive(Variations(PartOr0(v, 1), PartOr0(v, 2), PartOr0(v, 3), v.pre))

IsTag(v) == v = LATEST \/ v = NEXT

normalizeVersionWithTagCheck(v) == IF IsTag(v) THEN v ELSE normalizeVersion(v)

\* the numeric parts from position f on, to the first word, padded with zeros
CoerceFrom(v, f) ==
  LET at(k) == IF f + k <= Len(v.p) /\ \A j \in f..(f + k) : v.p[j] >= 0
               THEN v.p[f + k] ELSE 0
  IN Ver(at(0), at(1), at(2))

\* semver.coerce: the first run of numeric parts, padded with zeros, without
\* prerelease; Null when the text holds no number
coerce(v) ==
  IF \A i \in 1..Len(v.p) : v.p[i] < 0 THEN Null
  ELSE CoerceFrom(v, CHOOSE i \in 1..Len(v.p) :
                       v.p[i] >= 0 /\ \A j \in 1..(i - 1) : v.p[j] < 0)

\* cleanSemver: clean(version) ?? coerce(version)
cleanSemver(v) == IF Valid(v) THEN v ELSE coerce(v)

\* a slip: a tag or wildcard is above every version
gtTagAbove(v1, v2) ==
  IF v1.p # <<>> /\ v1.p[1] < 0 THEN TRUE
  ELSE Compare(normalizeVersion(v1), normalizeVersion(v2)) = 1

\* Migrator.gt / Migrator.lte: compare after normalizeVersion
gt(v1, v2) == Compare(normalizeVersion(v1), normalizeVersion(v2)) = 1
lte(v1, v2) == Compare(normalizeVersion(v1), normalizeVersion(v2)) <= 0

\* semver.gte / semver.lt on raw strings (they throw on an invalid version;
\* callers pass resolved versions)
semverGte(v1, v2) == Compare(v1, v2) >= 0
semverLt(v1, v2) == Compare(v1, v2) = -1

\* A range is ">=lo <hi"; satisfies(version, range, {includePrerelease: true})
\* is false for a version that is not a valid semver
satisfies(v, r) == Valid(v) /\ Compare(v, r.lo) >= 0 /\ Compare(v, r.hi) = -1

\* ------------------------------------------------------------------------
\* Data: manifests, update entries, package groups

\* the frozen legacy group of normalizePackageGroup, in declaration order
LegacyGroupNames ==
  <<"@nrwl/workspace", "@nrwl/angular", "@nrwl/cypress", "@nrwl/devkit",
    "@nrwl/eslint-plugin-nx", "@nrwl/express", "@nrwl/jest", "@nrwl/linter",
    "@nrwl/nest", "@nrwl/next", "@nrwl/node", "@nrwl/nx-plugin", "@nrwl/react",
    "@nrwl/storybook", "@nrwl/web", "@nrwl/js", "@nrwl/cli", "@nrwl/nx-cloud",
    "@nrwl/react-native", "@nrwl/detox", "@nrwl/expo">>

Range(s) == {s[i] : i \in 1..Len(s)}

Packages == {"nx", "a", "b", "c", "d", "e"} \cup Range(LegacyGroupNames)

\* addToPackageJson: "no" stands for false / undefined
NoAdd == "no"

\* one package of an update entry (PackageJsonUpdateForPackage); ifInst = ""
\* when ifPackageInstalled is not given
Upd(name, version, add, always, ifInst) ==
  [name |-> name, version |-> version, addToPackageJson |-> add,
   alwaysAddToPackageJson |-> always, ifPackageInstalled |-> ifInst]
U(name, version) == Upd(name, version, NoAdd, FALSE, "")

\* a requirement: package and range
Req(pkg, lo, hi) == [pkg |-> pkg, range |-> [lo |-> lo, hi |-> hi]]

\* one entry of packageJsonUpdates; hasPackages = FALSE: no `packages` key
Entry(version, hasPackages, packages, requires, xprompt) ==
  [version |-> version, hasPackages |-> hasPackages, packages |-> packages,
   requires |-> requires, xprompt |-> xprompt]

\* one generator of a manifest; version = Null when it has none
Gen(name, version, requires) == [name |-> name, version |-> version, requires |-> requires]

\* packageGroup: kind "none", "map" ({pkg: version}) or "list"; a list item
\* with bare = TRUE is a plain string
GItem(package, version, bare) == [package |-> package, version |-> version, bare |-> bare]
NoGroup == [kind |-> "none", items |-> <<>>]
MapGroup(items) == [kind |-> "map", items |-> items]
ListGroup(items) == [kind |-> "list", items |-> items]

\* what a package publishes besides its version
Man(updates, generators, group) ==
  [packageJsonUpdates |-> updates, generators |-> generators, packageGroup |-> group]
EmptyMan == Man(<<>>, <<>>, NoGroup)

\* ------------------------------------------------------------------------
\* Inputs: the workspace, the command options and the registry's answers

\* a map over Packages given by its pairs; the other packages map to dflt
Fn(pairs, dflt) ==
  [x \in Packages |->
     IF \E i \in 1..Len(pairs) : pairs[i][1] = x
     THEN pairs[CHOOSE i \in 1..Len(pairs) : pairs[i][1] = x][2]
     ELSE dflt]

Scenario(root, rootVersion, installed, dependencies, devDependencies, published, latest, man) ==
  [root |-> root, rootVersion |-> rootVersion,
   installed |-> Fn(installed, Null),
   dependencies |-> Fn(dependencies, Null),
   devDependencies |-> Fn(devDependencies, Null),
   published |-> Fn(published, {}),
   latest |-> Fn(latest, Null),
   man |-> Fn(man, EmptyMan)]

\* a installed at 1.0.0 and moved to 2.0.0; b installed; c listed in the
\* root manifest but not installed, and published with update entries,
\* generators and a package group of its own; d neither
ScenarioEntries ==
  Scenario("a", Ver(2, 0, 0),
    <<  <<"a", Ver(1, 0, 0)>>, <<"b", Ver(0, 2, 0)>>  >>,
    <<  <<"a", Ver(1, 0, 0)>>, <<"b", Ver(0, 2, 0)>>  >>,
    <<  <<"c", Ver(0, 1, 0)>>  >>,
    <<  <<"a", {Ver(1, 0, 0), Ver(2, 0, 0), Ver(3, 0, 0)}>>,
        <<"b", {Ver(0, 2, 0), Ver(0, 3, 0), Ver(0, 9, 0)}>>,
        <<"c", {Ver(1, 0, 0), Ver(2, 0, 0), Ver(3, 0, 0)}>>  >>,
    <<  <<"a", Ver(3, 0, 0)>>, <<"b", Ver(0, 9, 0)>>, <<"c", Ver(3, 0, 0)>>  >>,
    <<  <<"a", Man(
           <<Entry(Ver(0, 9, 0), TRUE, <<U("b", Ver(0, 1, 0))>>, <<>>, FALSE),
             Entry(Short2(1, 5), TRUE,
                   <<U("b", Ver(0, 3, 0)), U("c", Ver(1, 0, 0)),
                     U("e", Ver(1, 0, 0)),
                     Upd("d", Ver(2, 0, 0), "devDependencies", FALSE, "b")>>,
                   <<>>, FALSE),
             Entry(Ver(1, 8, 0), FALSE, <<>>, <<>>, FALSE),
             Entry(Ver(2, 5, 0), TRUE, <<U("b", Ver(0, 9, 0))>>, <<>>, FALSE)>>,
           <<Gen("g09", Ver(0, 9, 0), <<>>), Gen("g10", Ver(1, 0, 0), <<>>),
             Gen("g15", Short2(1, 5), <<>>), Gen("g20", Ver(2, 0, 0), <<>>),
             Gen("g30", Ver(3, 0, 0), <<>>), Gen("gnone", Null, <<>>),
             Gen("greq", Ver(1, 7, 0), <<Req("b", Ver(0, 3, 0), Ver(1, 0, 0))>>),
             Gen("gnot", Ver(1, 7, 0), <<Req("b", Ver(1, 0, 0), Ver(2, 0, 0))>>)>>,
           NoGroup)>>,
        <<"b", Man(
           <<Entry(Ver(0, 3, 0), TRUE,
                   <<Upd("c", Ver(2, 0, 0), NoAdd, TRUE, ""),
                     Upd("d", Ver(1, 5, 0), "dependencies", FALSE, "")>>,
                   <<>>, FALSE)>>,
           <<Gen("gb3", Ver(0, 3, 0), <<>>), Gen("gb2", Ver(0, 2, 0), <<>>)>>,
           NoGroup)>>,
        <<"c", Man(
           <<Entry(Ver(1, 0, 0), TRUE, <<U("b", Ver(0, 9, 0)), U("e", Ver(2, 0, 0))>>,
                   <<>>, FALSE)>>,
           <<Gen("gc1", Ver(1, 0, 0), <<>>)>>,
           ListGroup(<<GItem("e", Ver(3, 0, 0), FALSE)>>))>>  >>)

\* a, b and c installed at 1.0.0 with package groups that name each other
\* (a list with a bare name, a '*' and a pinned member; a map; a list of bare
\* names); c listed in both sections of the root manifest; d listed but not
\* installed
ScenarioGroups ==
  Scenario("a", Ver(2, 0, 0),
    <<  <<"a", Ver(1, 0, 0)>>, <<"b", Ver(1, 0, 0)>>, <<"c", Ver(1, 0, 0)>>  >>,
    <<  <<"a", Ver(1, 0, 0)>>, <<"b", Ver(1, 0, 0)>>, <<"c", Ver(1, 0, 0)>>,
        <<"d", Ver(1, 0, 0)>>  >>,
    <<  <<"c", Ver(1, 0, 0)>>  >>,
    <<  <<"a", {Ver(1, 0, 0), Ver(2, 0, 0)}>>, <<"b", {Ver(1, 0, 0), Ver(2, 0, 0)}>>,
        <<"c", {Ver(1, 0, 0), Ver(2, 0, 0)}>>  >>,
    <<  <<"a", Ver(2, 0, 0)>>, <<"b", Ver(2, 0, 0)>>, <<"c", Ver(2, 0, 0)>>  >>,
    <<  <<"a", Man(<<>>, <<Gen("ga", Ver(2, 0, 0), <<>>)>>,
                   ListGroup(<<GItem("b", Null, TRUE), GItem("c", STAR, FALSE),
                               GItem("d", Ver(2, 0, 0), FALSE)>>))>>,
        <<"b", Man(<<>>,
                   <<Gen("gb1", Ver(1, 5, 0), <<>>), Gen("gb2", Ver(2, 0, 0), <<>>),
                     Gen("gb0", Ver(0, 8, 0), <<>>)>>,
                   MapGroup(<<GItem("a", STAR, FALSE), GItem("c", STAR, FALSE)>>))>>,
        <<"c", Man(<<>>, <<Gen("gc", Ver(2, 0, 0), <<>>), Gen("gc0", Ver(0, 8, 0), <<>>)>>,
                   ListGroup(<<GItem("a", Null, TRUE), GItem("b", Null, TRUE)>>))>>  >>)

\* a's entries are chained by requires on b, which they also move; some ask
\* for confirmation
ScenarioRequires ==
  Scenario("a", Ver(2, 0, 0),
    <<  <<"a", Ver(1, 0, 0)>>, <<"b", Ver(1, 0, 0)>>, <<"c", Ver(1, 0, 0)>>  >>,
    <<  <<"a", Ver(1, 0, 0)>>, <<"b", Ver(1, 0, 0)>>, <<"c", Ver(1, 0, 0)>>  >>,
    <<>>,
    <<  <<"a", {Ver(1, 0, 0), Ver(2, 0, 0)}>>,
        <<"b", {Ver(1, 0, 0), Ver(2, 0, 0), Ver(3, 0, 0)}>>,
        <<"c", {Ver(1, 0, 0), Ver(2, 0, 0), Ver(3, 0, 0)}>>  >>,
    <<  <<"a", Ver(2, 0, 0)>>, <<"b", Ver(3, 0, 0)>>, <<"c", Ver(3, 0, 0)>>  >>,
    <<  <<"a", Man(
           <<Entry(Ver(1, 5, 0), TRUE, <<U("b", Ver(2, 0, 0))>>, <<>>, TRUE),
             Entry(Ver(1, 6, 0), TRUE, <<U("c", Ver(2, 0, 0))>>,
                   <<Req("b", Ver(2, 0, 0), Ver(3, 0, 0))>>, FALSE),
             Entry(Ver(1, 7, 0), TRUE, <<U("b", Ver(3, 0, 0))>>,
                   <<Req("b", Ver(2, 0, 0), Ver(3, 0, 0))>>, TRUE),
             Entry(Ver(1, 8, 0), TRUE, <<U("c", Ver(3, 0, 0))>>,
                   <<Req("d", Ver(1, 0, 0), Ver(2, 0, 0))>>, FALSE),
             Entry(Ver(1, 9, 0), TRUE, <<U("c", Ver(2, 0, 0))>>,
                   <<Req("b", Ver(2, 0, 0), Ver(3, 0, 0))>>, FALSE)>>,
           <<Gen("ga2", Ver(2, 0, 0), <<Req("b", Ver(3, 0, 0), Ver(4, 0, 0))>>)>>,
           NoGroup)>>,
        <<"b", Man(<<>>,
                   <<Gen("gb3", Ver(3, 0, 0), <<>>),
                     Gen("gbd", Ver(2, 0, 0), <<Req("d", Ver(1, 0, 0), Ver(2, 0, 0))>>)>>,
                   NoGroup)>>,
        <<"c", Man(<<>>,
                   <<Gen("gc2", Ver(2, 0, 0), <<Req("b", Ver(2, 0, 0), Ver(3, 0, 0))>>)>>,
                   NoGroup)>>  >>)

\* a and b each propose the other above the version it is pinned to; a's
\* entry asks for confirmation
ScenarioCycle ==
  Scenario("a", Ver(2, 0, 0),
    <<  <<"a", Ver(1, 0, 0)>>, <<"b", Ver(1, 0, 0)>>  >>,
    <<  <<"a", Ver(1, 0, 0)>>, <<"b", Ver(1, 0, 0)>>  >>,
    <<>>,
    <<  <<"a", {Ver(1, 0, 0), Ver(2, 0, 0), Ver(3, 0, 0)}>>,
        <<"b", {Ver(1, 0, 0), Ver(2, 0, 0), Ver(3, 0, 0)}>>  >>,
    <<  <<"a", Ver(3, 0, 0)>>, <<"b", Ver(3, 0, 0)>>  >>,
    <<  <<"a", Man(<<Entry(Ver(1, 5, 0), TRUE, <<U("b", Ver(3, 0, 0))>>, <<>>, TRUE)>>,
                   <<Gen("ga", Ver(2, 0, 0), <<>>)>>, NoGroup)>>,
        <<"b", Man(<<Entry(Ver(1, 5, 0), TRUE, <<U("a", Ver(3, 0, 0))>>, <<>>, FALSE)>>,
                   <<Gen("gb", Ver(2, 0, 0), <<>>)>>, NoGroup)>>  >>)

\* @nrwl/workspace moved to a version below 14: the frozen legacy group
ScenarioLegacy ==
  Scenario("@nrwl/workspace", Ver(13, 9, 0),
    <<  <<"@nrwl/workspace", Ver(13, 0, 0)>>, <<"@nrwl/angular", Ver(13, 0, 0)>>,
        <<"@nrwl/nx-cloud", Ver(13, 0, 0)>>  >>,
    <<  <<"@nrwl/workspace", Ver(13, 0, 0)>>, <<"@nrwl/angular", Ver(13, 0, 0)>>  >>,
    <<  <<"@nrwl/nx-cloud", Ver(13, 0, 0)>>, <<"@nrwl/jest", Ver(13, 0, 0)>>  >>,
    <<  <<"@nrwl/workspace", {Ver(13, 0, 0), Ver(13, 9, 0), Ver(15, 0, 0)}>>,
        <<"@nrwl/angular", {Ver(13, 0, 0), Ver(13, 9, 0), Ver(15, 0, 0)}>>,
        <<"@nrwl/jest", {Ver(15, 0, 0)}>>,
        <<"@nrwl/nx-cloud", {Ver(13, 0, 0), Ver(14, 0, 0)}>>  >>,
    <<  <<"@nrwl/workspace", Ver(15, 0, 0)>>, <<"@nrwl/angular", Ver(15, 0, 0)>>,
        <<"@nrwl/jest", Ver(15, 0, 0)>>, <<"@nrwl/nx-cloud", Ver(14, 0, 0)>>  >>,
    <<  <<"@nrwl/workspace",
          Man(<<>>, <<Gen("gw", Ver(13, 5, 0), <<>>)>>,
              ListGroup(<<GItem("@nrwl/angular", Null, TRUE)>>))>>,
        <<"@nrwl/angular", Man(<<>>, <<Gen("gn", Ver(14, 0, 0), <<>>)>>, NoGroup)>>,
        <<"@nrwl/nx-cloud", Man(<<>>, <<Gen("gl", Ver(14, 0, 0), <<>>)>>, NoGroup)>>  >>)

\* @nrwl/workspace installed at 15.0.0 and moved to 15.8.0; the root manifest
\* lists it as `listed` (a version, or a range such as ^15.0.0)
ScenarioWorkspace(listed) ==
  Scenario("@nrwl/workspace", Ver(15, 8, 0),
    <<  <<"@nrwl/workspace", Ver(15, 0, 0)>>  >>,
    <<>>,
    <<  <<"@nrwl/workspace", listed>>  >>,
    <<  <<"@nrwl/workspace", {Ver(15, 0, 0), Ver(15, 8, 0)}>>  >>,
    <<  <<"@nrwl/workspace", Ver(15, 8, 0)>>  >>,
    <<  <<"@nrwl/workspace", Man(<<>>, <<Gen("gw158", Ver(15, 8, 0), <<>>)>>, NoGroup)>>  >>)

\* the target e is neither installed nor listed in the root manifest
ScenarioNotInstalled ==
  Scenario("e", Ver(1, 0, 0),
    <<  <<"a", Ver(1, 0, 0)>>  >>,
    <<  <<"a", Ver(1, 0, 0)>>  >>,
    <<>>,
    <<  <<"e", {Ver(1, 0, 0)}>>  >>,
    <<  <<"e", Ver(1, 0, 0)>>  >>,
    <<  <<"e", Man(<<>>, <<Gen("ge", Ver(1, 0, 0), <<>>)>>, NoGroup)>>  >>)

\* a publishes a migrations file, b only a package group, c neither
ScenarioFetch ==
  Scenario("a", Ver(2, 0, 0),
    <<  <<"a", Ver(1, 0, 0)>>, <<"b", Ver(1, 0, 0)>>, <<"c", Ver(1, 0, 0)>>  >>,
    <<  <<"a", Ver(1, 0, 0)>>, <<"b", Ver(1, 0, 0)>>, <<"c", Ver(1, 0, 0)>>  >>,
    <<>>,
    <<  <<"a", {Ver(1, 0, 0), Ver(2, 0, 0)}>>, <<"b", {Ver(1, 0, 0), Ver(2, 0, 0)}>>,
        <<"c", {Ver(1, 0, 0), Ver(2, 0, 0)}>>  >>,
    <<  <<"a", Ver(2, 0, 0)>>, <<"b", Ver(2, 0, 0)>>, <<"c", Ver(2, 0, 0)>>  >>,
    <<  <<"a", Man(<<Entry(Ver(1, 5, 0), TRUE, <<U("c", Ver(2, 0, 0))>>, <<>>, FALSE)>>,
                   <<Gen("ga", Ver(2, 0, 0), <<>>)>>, NoGroup)>>,
        <<"b", Man(<<>>, <<>>, ListGroup(<<GItem("a", Null, TRUE)>>))>>  >>)

\* a's entry asks for confirmation and moves b and c, whose own entries ask
\* for confirmation too
ScenarioPrompts ==
  Scenario("a", Ver(2, 0, 0),
    <<  <<"a", Ver(1, 0, 0)>>, <<"b", Ver(1, 0, 0)>>, <<"c", Ver(1, 0, 0)>>  >>,
    <<  <<"a", Ver(1, 0, 0)>>, <<"b", Ver(1, 0, 0)>>, <<"c", Ver(1, 0, 0)>>  >>,
    <<>>,
    <<  <<"a", {Ver(1, 0, 0), Ver(2, 0, 0)}>>, <<"b", {Ver(1, 0, 0), Ver(2, 0, 0)}>>,
        <<"c", {Ver(1, 0, 0), Ver(2, 0, 0)}>>  >>,
    <<  <<"a", Ver(2, 0, 0)>>, <<"b", Ver(2, 0, 0)>>, <<"c", Ver(2, 0, 0)>>  >>,
    <<  <<"a", Man(<<Entry(Ver(1, 5, 0), TRUE,
                           <<U("b", Ver(2, 0, 0)), U("c", Ver(2, 0, 0))>>, <<>>, TRUE)>>,
                   <<>>, NoGroup)>>,
        <<"b", Man(<<Entry(Ver(1, 5, 0), TRUE,
                           <<Upd("d", Ver(1, 0, 0), "dependencies", FALSE, "")>>,
                           <<>>, TRUE)>>,
                   <<>>, NoGroup)>>,
        <<"c", Man(<<Entry(Ver(1, 5, 0), TRUE,
                           <<Upd("e", Ver(1, 0, 0), "devDependencies", FALSE, "")>>,
                           <<>>, TRUE)>>,
                   <<>>, NoGroup)>>  >>)

NoMap == Fn(<<>>, Null)

\* command options: from (override map), to (pins), interactive
Options(from, to, interactive) ==
  [from |-> Fn(from, Null), to |-> Fn(to, Null), interactive |-> interactive]

\* the inputs of one run: a scenario and the options it is planned under
Run(sc, opts) == [sc |-> sc, opts |-> opts]

Runs ==
  <<Run(ScenarioEntries, Options(<<>>, <<>>, FALSE)),
    Run(ScenarioEntries,
        Options(<<>>, << <<"b", Ver(0, 9, 0)>>, <<"c", Ver(3, 0, 0)>> >>, FALSE)),
    Run(ScenarioEntries, Options(<<>>, << <<"b", Ver(7, 7, 7)>> >>, FALSE)),
    Run(ScenarioGroups, Options(<<>>, <<>>, FALSE)),
    Run(ScenarioGroups,
        Options(<< <<"a", Ver(0, 5, 0)>>, <<"c", Ver(0, 7, 0)>> >>, <<>>, FALSE)),
    Run(ScenarioRequires, Options(<<>>, <<>>, FALSE)),
    Run(ScenarioRequires, Options(<<>>, <<>>, TRUE)),
    Run(ScenarioCycle,
        Options(<<>>, << <<"a", Ver(2, 0, 0)>>, <<"b", Ver(2, 0, 0)>> >>, FALSE)),
    Run(ScenarioLegacy, Options(<<>>, <<>>, FALSE)),
    Run(ScenarioLegacy, Options(<< <<"@nrwl/workspace", Ver(12, 0, 0)>> >>, <<>>, FALSE)),
    Run(ScenarioWorkspace(Ver(15, 0, 0)), Options(<<>>, <<>>, FALSE)),
    Run(ScenarioWorkspace([p |-> <<TagWord, 0, 0>>, pre |-> 0]), Options(<<>>, <<>>, FALSE)),
    Run(ScenarioNotInstalled, Options(<<>>, <<>>, FALSE)),
    Run(ScenarioPrompts, Options(<<>>, <<>>, TRUE)),
    Run(ScenarioFetch, Options(<<>>, <<>>, FALSE))>>

\* ------------------------------------------------------------------------
\* State

VARIABLES
  run,                 \* index in Runs of the inputs of this plan
  status,              \* "init", "planning", "generating", "done", "failed"
  overrides,           \* Migrator.installedPkgVersionOverrides (opts.from)
  packageJsonUpdates,  \* Migrator.packageJsonUpdates, in key insertion order
  collectedVersions,   \* Migrator.collectedVersions
  tasks,               \* the pending and finished async calls
  queue,               \* calls whose awaited promise has settled, to resume
  fetched,             \* request keys whose fetch promise has resolved
  migrations,          \* the list createMigrateJson returned
  previous,            \* what the preceding plan of the same inputs returned
  failure,             \* the error a fetch rejected with and the one updatePackageJson threw
  proposals,           \* history: the (name, version) given to addPackageJsonUpdate, in order
  expansions,          \* history: the (package, resolved version) that passed the pruning check
  accepted,            \* history: the entries with requires the walker merged
  normalized,          \* history: the override propagations normalizePackageGroup had to do
  contributed,         \* history: the entries filterPackageJsonUpdates kept
  retained,            \* history: what filterPackageJsonUpdates was given and what it returned
  files,               \* <root>/package.json and <root>/migrations.json, and how the command ended
  migrationsCache,     \* createFetcher: request key -> the promise cached under it (0: none)
  resolvedVersionCache,  \* createFetcher: the request keys with a cached version promise
  promises,            \* the `migrations` promises nxMigrateFetcher has created
  calls,               \* history: the calls of nxMigrateFetcher and the promise each returned
  lookups,             \* history: the calls of getPackageMigrationsUsingRegistry
  options,             \* the options object given to parseMigrationsOptions
  parsed,              \* what parseMigrationsOptions returned or threw
  cache,               \* createInstalledPackageVersionsResolver: name -> cached version
  modules,             \* the versions of the modules installed under root
  asked,               \* history: the last call of the resolver and what it returned
  first,               \* history: name -> the version its first successful lookup read
  exec,                \* executeMigrations: its arguments, its position and its locals
  workspace,           \* the manifest under root, and history: what was run, committed, installed
  plugins,             \* installPlugins: the plugins it is asked to install
  position,            \* installPlugins: the index in plugins its loop is at
  succeededPlugins,    \* installPlugins: succeededPlugins
  failedPlugins,       \* installPlugins: failedPlugins, in key insertion order
  initRuns,            \* history: how the init generator of each plugin went
  installation         \* what installPlugins returned

planner == <<run, status, overrides, packageJsonUpdates, collectedVersions, tasks,
             queue, fetched, migrations, previous, failure, proposals, expansions, accepted,
             normalized, contributed, retained, files>>

fetcher == <<migrationsCache, resolvedVersionCache, promises, calls, lookups>>

parser == <<options, parsed>>

resolver == <<cache, modules, asked, first>>

runner == <<exec, workspace>>

installer == <<plugins, position, succeededPlugins, failedPlugins, initRuns, installation>>

\* the state of the components a step of the planner leaves alone
apart == <<fetcher, parser, resolver, runner, installer>>

vars == <<planner, fetcher, parser, resolver, runner, installer>>

hist == <<proposals, expansions, accepted, normalized, contributed, retained>>

Sc == Runs[run].sc
Opts == Runs[run].opts
to == Opts.to
interactive == Opts.interactive

\* ------------------------------------------------------------------------
\* The installed-version resolver and the registry

\* getInstalledPackageVersion: the override, else the installed module's
\* version, else for nx the answer for @nrwl/workspace, else null
getInstalledPackageVersion(packageName, ov) ==
  IF ov[packageName] # Null THEN ov[packageName]
  ELSE IF Sc.installed[packageName] # Null THEN Sc.installed[packageName]
  ELSE IF packageName = "nx"
       THEN (IF ov["@nrwl/workspace"] # Null THEN ov["@nrwl/workspace"]
             ELSE Sc.installed["@nrwl/workspace"])
  ELSE Null

\* Migrator.getPkgVersion
getPkgVersion(ov, pkg) == getInstalledPackageVersion(pkg, ov)

\* the highest element of a non-empty set of valid versions
MaxVersion(vs) == CHOOSE v \in vs : \A w \in vs : Compare(v, w) >= 0

\* resolvePackageVersionUsingRegistry: a tag or the wildcard resolves to the
\* latest version, anything else to the highest published version it names
\* (itself when it is a published version); Null: no matching version
resolvePackageVersion(pkg, version) ==
  LET cands ==
        IF version.p # <<>> /\ version.p[1] < 0
        THEN (IF Sc.latest[pkg] = Null THEN {} ELSE {Sc.latest[pkg]})
        ELSE {x \in Sc.published[pkg] :
                /\ \A i \in 1..Len(version.p) : x.p[i] = version.p[i]
                /\ (Len(version.p) = 3 => x.pre = version.pre)}
  IN IF cands = {} THEN Null ELSE MaxVersion(cands)

\* what fetch(pkg, version) resolves to: the package's manifest with the
\* resolved version
fetchResult(pkg, version) ==
  LET m == Sc.man[pkg]
  IN [version |-> resolvePackageVersion(pkg, version),
      packageJsonUpdates |-> m.packageJsonUpdates,
      generators |-> m.generators,
      packageGroup |-> m.packageGroup]

\* ------------------------------------------------------------------------
\* Ordered maps (JavaScript objects keep key insertion order): sequences of
\* records with a name field, names unique

IndexOf(seq, name) ==
  IF \E i \in 1..Len(seq) : seq[i].name = name
  THEN CHOOSE i \in 1..Len(seq) : seq[i].name = name
  ELSE 0

Has(seq, name) == IndexOf(seq, name) # 0

\* obj[name] = rec
Put(seq, rec) ==
  IF Has(seq, rec.name) THEN [seq EXCEPT ![IndexOf(seq, rec.name)] = rec]
  ELSE Append(seq, rec)

\* {...a, ...b}
RECURSIVE PutAll(_, _)
PutAll(a, b) == IF b = <<>> THEN a ELSE PutAll(Put(a, Head(b)), Tail(b))

\* the sequence of the elements of seq that satisfy Test, in order
RECURSIVE SelectBy(_, _)
SelectBy(seq, keep) ==
  IF seq = <<>> THEN <<>>
  ELSE IF Head(seq) \in keep THEN <<Head(seq)>> \o SelectBy(Tail(seq), keep)
  ELSE SelectBy(Tail(seq), keep)

RECURSIVE Flat(_)
Flat(seqs) == IF seqs = <<>> THEN <<>> ELSE Head(seqs) \o Flat(Tail(seqs))

\* ------------------------------------------------------------------------
\* Migrator: the synchronous helpers

PlanRec(name, version, add) == [name |-> name, version |-> version, addToPackageJson |-> add]

\* a slip: the last proposal wins
addPackageJsonUpdateLastWins(plan, name, version, add) == Put(plan, PlanRec(name, version, add))

\* Migrator.addPackageJsonUpdate: store when absent or strictly greater
addPackageJsonUpdate(plan, name, version, add) ==
  IF ~Has(plan, name) \/ gt(version, plan[IndexOf(plan, name)].version)
  THEN Put(plan, PlanRec(name, version, add))
  ELSE plan

\* this.packageJsonUpdates[pkg]?.version
PlannedVersion(plan, pkg) == IF Has(plan, pkg) THEN plan[IndexOf(plan, pkg)].version ELSE Null

\* a slip: the package only has to be installed, planned or merged, whatever
\* its version
RequirementMetAnyVersion(plan, ov, pkgName, versionRange, extra) ==
  \/ getPkgVersion(ov, pkgName) # Null
  \/ PlannedVersion(plan, pkgName) # Null
  \/ Has(extra, pkgName)

\* one pair of `requires` in areRequirementsMet
RequirementMet(plan, ov, pkgName, versionRange, extra) ==
  \/ /\ getPkgVersion(ov, pkgName) # Null
     /\ satisfies(getPkgVersion(ov, pkgName), versionRange)
  \/ /\ PlannedVersion(plan, pkgName) # Null
     /\ satisfies(PlannedVersion(plan, pkgName), versionRange)
  \/ /\ Has(extra, pkgName)
     /\ extra[IndexOf(extra, pkgName)].version # Null
     /\ satisfies(cleanSemver(extra[IndexOf(extra, pkgName)].version), versionRange)

\* Migrator.areRequirementsMet; extra is the walker's filteredUpdates (<<>>
\* when not given)
areRequirementsMet(plan, ov, requirements, extra) ==
  \A i \in 1..Len(requirements) :
    RequirementMet(plan, ov, requirements[i].pkg, requirements[i].range, extra)

LegacyBoundary == PreVer(14, 0, 0, 1)

LegacyGroup ==
  MapGroup([i \in 1..Len(LegacyGroupNames) |->
              GItem(LegacyGroupNames[i],
                    IF LegacyGroupNames[i] = "@nrwl/nx-cloud" THEN LATEST ELSE STAR,
                    FALSE)])

\* whether normalizePackageGroup propagates the parent's override to an item
Propagates(kind, item) == IF kind = "map" THEN item.version = STAR
                          ELSE item.bare \/ item.version = STAR

\* a slip: `=` for `??=`, the member's own override is overwritten
PropagateOneOverwriting(ov, packageName, kind, item) ==
  IF ov[packageName] # Null /\ Propagates(kind, item)
  THEN [ov EXCEPT ![item.package] = ov[packageName]]
  ELSE ov

\* `overrides[member] ??= overrides[packageName]` for one item
PropagateOne(ov, packageName, kind, item) ==
  IF ov[packageName] # Null /\ Propagates(kind, item) /\ ov[item.package] = Null
  THEN [ov EXCEPT ![item.package] = ov[packageName]]
  ELSE ov

RECURSIVE PropagateOverrides(_, _, _, _)
PropagateOverrides(ov, packageName, kind, items) ==
  IF items = <<>> THEN ov
  ELSE PropagateOverrides(PropagateOne(ov, packageName, kind, Head(items)),
                          packageName, kind, Tail(items))

\* the group normalizePackageGroup works on: the frozen legacy group for
\* @nrwl/workspace below 14.0.0-beta.0
EffectiveGroup(packageName, targetVersion, packageGroup) ==
  IF packageName = "@nrwl/workspace" /\ semverLt(targetVersion, LegacyBoundary)
  THEN LegacyGroup ELSE packageGroup

NormalizeGroup(ov, packageName, targetVersion, group) ==
  IF group.kind = "none" THEN [items |-> <<>>, ov |-> ov]
  ELSE [items |-> [i \in 1..Len(group.items) |->
                     [package |-> group.items[i].package,
                      version |-> IF group.items[i].bare THEN targetVersion
                                  ELSE group.items[i].version]],
        ov |-> PropagateOverrides(ov, packageName, group.kind, group.items)]

\* Migrator.normalizePackageGroup: the items as {package, version} in order,
\* and the overrides after the propagation
normalizePackageGroup(ov, packageName, targetVersion, packageGroup) ==
  NormalizeGroup(ov, packageName, targetVersion,
                 EffectiveGroup(packageName, targetVersion, packageGroup))

\* the packages of the entry setPackageGroupAsPackageJsonUpdate builds
GroupPackages(packageGroup) ==
  PutAll(<<>>, [i \in 1..Len(packageGroup) |->
                  Upd(packageGroup[i].package, packageGroup[i].version, NoAdd, FALSE, "")])

\* a slip: every member is given the target version
setPackageGroupAtTargetVersion(packageGroup, targetVersion, updates) ==
  Append(updates,
         Entry(targetVersion, TRUE,
               PutAll(<<>>, [i \in 1..Len(packageGroup) |->
                               Upd(packageGroup[i].package, targetVersion, NoAdd, FALSE, "")]),
               <<>>, FALSE))

\* setPackageGroupAsPackageJsonUpdate: the entry "<targetVersion>--PackageGroup"
\* added after the declared entries
setPackageGroupAsPackageJsonUpdate(packageGroup, targetVersion, updates) ==
  Append(updates, Entry(targetVersion, TRUE, GroupPackages(packageGroup), <<>>, FALSE))

\* a slip: a package is kept whether or not the root manifest lists it
KeepPackageUnlisted(ov, coll, u) ==
  /\ (u.ifPackageInstalled = "" \/ getPkgVersion(ov, u.ifPackageInstalled) # Null)
  /\ (coll[u.name] = Null \/ gt(u.version, coll[u.name]))

\* the test of filterPackageJsonUpdates on one package of an entry
KeepPackage(ov, coll, u) ==
  /\ (u.ifPackageInstalled = "" \/ getPkgVersion(ov, u.ifPackageInstalled) # Null)
  /\ \/ u.alwaysAddToPackageJson
     \/ u.addToPackageJson # NoAdd
     \/ Sc.dependencies[u.name] # Null
     \/ Sc.devDependencies[u.name] # Null
  /\ (coll[u.name] = Null \/ gt(u.version, coll[u.name]))

\* the canonical form filterPackageJsonUpdates rewrites a kept package to
Canonical(u) ==
  Upd(u.name, u.version,
      IF u.alwaysAddToPackageJson THEN "dependencies" ELSE u.addToPackageJson,
      FALSE, "")

\* the kept packages of an entry, rewritten, in order
RECURSIVE KeptPackages(_, _, _)
KeptPackages(ov, coll, packages) ==
  IF packages = <<>> THEN <<>>
  ELSE (IF KeepPackage(ov, coll, Head(packages)) THEN <<Canonical(Head(packages))>> ELSE <<>>)
       \o KeptPackages(ov, coll, Tail(packages))

\* a slip: the entry's version is not compared with the installed version
KeepEntryAnyInstalled(ov, e, packageName, targetVersion) ==
  ~ \/ ~e.hasPackages
    \/ gt(e.version, targetVersion)

\* the test of filterPackageJsonUpdates on an entry
KeepEntry(ov, e, packageName, targetVersion) ==
  ~ \/ ~e.hasPackages
    \/ lte(e.version, getPkgVersion(ov, packageName))
    \/ gt(e.version, targetVersion)

\* an entry with its packages rewritten is pushed unless none is left
PushEntry(e, pkgs) == IF pkgs = <<>> THEN <<>> ELSE <<[e EXCEPT !.packages = pkgs]>>

FilterEntry(ov, coll, e, packageName, targetVersion) ==
  IF KeepEntry(ov, e, packageName, targetVersion)
  THEN PushEntry(e, KeptPackages(ov, coll, e.packages))
  ELSE <<>>

\* Migrator.filterPackageJsonUpdates
RECURSIVE filterPackageJsonUpdates(_, _, _, _, _)
filterPackageJsonUpdates(ov, coll, updates, packageName, targetVersion) ==
  IF updates = <<>> THEN <<>>
  ELSE FilterEntry(ov, coll, Head(updates), packageName, targetVersion)
       \o filterPackageJsonUpdates(ov, coll, Tail(updates), packageName, targetVersion)

\* migrationConfig.packageJsonUpdates after setPackageGroupAsPackageJsonUpdate,
\* which is called for a non-empty group only
WithGroupEntry(packageGroup, targetVersion, updates) ==
  IF packageGroup # <<>>
  THEN setPackageGroupAsPackageJsonUpdate(packageGroup, targetVersion, updates)
  ELSE updates

\* the end of getPackageJsonUpdatesFromMigrationConfig
FilterIfInstalled(ov, coll, updates, packageName, targetVersion) ==
  IF updates = <<>> \/ getPkgVersion(ov, packageName) = Null THEN <<>>
  ELSE filterPackageJsonUpdates(ov, coll, updates, packageName, targetVersion)

FromNormalized(norm, coll, packageName, targetVersion, migrationConfig) ==
  [packageJsonUpdates |->
     FilterIfInstalled(norm.ov, coll,
                       WithGroupEntry(norm.items, targetVersion, migrationConfig.packageJsonUpdates),
                       packageName, targetVersion),
   packageGroupOrder |-> [i \in 1..Len(norm.items) |-> norm.items[i].package],
   ov |-> norm.ov]

\* Migrator.getPackageJsonUpdatesFromMigrationConfig
getPackageJsonUpdatesFromMigrationConfig(ov, coll, packageName, targetVersion, migrationConfig) ==
  FromNormalized(normalizePackageGroup(ov, packageName, targetVersion, migrationConfig.packageGroup),
                 coll, packageName, targetVersion, migrationConfig)

\* shouldCheckUpdates of populatePackageJsonUpdatesAndGetPackagesToCheck
shouldCheckUpdates(updates) ==
  \E i \in 1..Len(updates) :
    (interactive /\ updates[i].xprompt) \/ updates[i].requires # <<>>

\* packageJsonUpdates.reduce((m, c) => ({...m, ...c.packages}), {})
RECURSIVE MergePackages(_, _)
MergePackages(acc, updates) ==
  IF updates = <<>> THEN acc
  ELSE MergePackages(PutAll(acc, Head(updates).packages), Tail(updates))

\* packageGroupOrder.indexOf(pkg), from 0; -1 when absent
OrderIndex(order, pkg) ==
  IF \E i \in 1..Len(order) : order[i] = pkg
  THEN (CHOOSE i \in 1..Len(order) : order[i] = pkg /\ \A j \in 1..(i - 1) : order[j] # pkg) - 1
  ELSE -1

\* insert g into the sorted groups after every element whose key is <= its own
RECURSIVE InsertSorted(_, _, _)
InsertSorted(sorted, g, order) ==
  IF sorted = <<>> THEN <<g>>
  ELSE IF OrderIndex(order, Head(sorted).package) <= OrderIndex(order, g.package)
       THEN <<Head(sorted)>> \o InsertSorted(Tail(sorted), g, order)
       ELSE <<g>> \o sorted

\* Array.prototype.sort by packageGroupOrder.indexOf (a stable sort)
RECURSIVE SortByGroupOrder(_, _)
SortByGroupOrder(groups, order) ==
  IF groups = <<>> THEN <<>>
  ELSE InsertSorted(SortByGroupOrder(SubSeq(groups, 1, Len(groups) - 1), order),
                    groups[Len(groups)], order)

\* ------------------------------------------------------------------------
\* The asynchronous calls.  A task is one call of an async method that has
\* reached an await; tasks[i].pc says which.  A call that returns before its
\* first await leaves no task: its handle is 0.

Target(version, add) == [version |-> version, addToPackageJson |-> add]

NewTask(kind, pkg, target, parent, pc, key) ==
  [kind |-> kind, pkg |-> pkg, target |-> target, parent |-> parent, pc |-> pc,
   key |-> key, kids |-> <<>>, res |-> <<>>, order |-> <<>>, groups |-> <<>>,
   gi |-> 0, ei |-> 0, acc |-> <<>>, ans |-> FALSE, judged |-> <<>>, pruned |-> FALSE,
   walk |-> <<>>]

NoKey == <<"", Null>>

\* the part of the planner's state a synchronous stretch of code may change
Mach(plan, tsks, q, props, log) ==
  [plan |-> plan, tasks |-> tsks, queue |-> q, props |-> props, log |-> log, ret |-> 0]

\* `await this.fetch(pkg, version)` by a new task: it is ready at once when
\* the promise of that request has already resolved
AwaitFetch(m, task) ==
  [m EXCEPT !.tasks = Append(@, task),
            !.queue = IF task.key \in fetched THEN Append(@, Len(m.tasks) + 1) ELSE @,
            !.ret = Len(m.tasks) + 1]

\* the version populate... fetches: to[pkg] when set, else the proposed one
TargetVersion(targetPackage, target) ==
  IF to[targetPackage] # Null THEN to[targetPackage] ELSE target.version

\* a slip: fetch is called for a package that is not installed, too
CallPopulateFetches(m, ov, targetPackage, target, parent) ==
  AwaitFetch(m, NewTask("populate", targetPackage, target, parent, "fetch",
                        <<targetPackage, TargetVersion(targetPackage, target)>>))

\* populatePackageJsonUpdatesAndGetPackagesToCheck up to its first await: a
\* package that is not installed is recorded and the call returns []; else
\* fetch is called and the call waits for it
CallPopulate(m, ov, targetPackage, target, parent) ==
  IF getPkgVersion(ov, targetPackage) = Null
  THEN [m EXCEPT
          !.plan = addPackageJsonUpdate(@, targetPackage, target.version, target.addToPackageJson),
          !.props = Append(@, <<targetPackage, target.version>>),
          !.ret = 0]
  ELSE AwaitFetch(m, NewTask("populate", targetPackage, target, parent, "fetch",
                             <<targetPackage, TargetVersion(targetPackage, target)>>))

\* `await this.populate...(...)` by build task id; m.ret is the call's handle
AwaitPopulate(m, id) ==
  [m EXCEPT !.tasks[id].kids = <<m.ret>>,
            !.queue = IF m.ret = 0 THEN Append(@, id) ELSE @,
            !.ret = id]

\* buildPackageJsonUpdates up to its first await (of the populate call)
CallBuild(m, ov, targetPackage, target, parent) ==
  AwaitPopulate(
    CallPopulate([m EXCEPT !.tasks = Append(@, NewTask("build", targetPackage, target, parent,
                                                       "populate", NoKey))],
                 ov, targetPackage, target, Len(m.tasks) + 1),
    Len(m.tasks) + 1)

CallOne(m, ov, kind, u, parent) ==
  IF kind = "build"
  THEN CallBuild(m, ov, u.name, Target(u.version, u.addToPackageJson), parent)
  ELSE CallPopulate(m, ov, u.name, Target(u.version, u.addToPackageJson), parent)

\* Object.entries(updates).map(([name, update]) => call(name, update)): the
\* calls are made in order; the result's ret collects their handles
RECURSIVE SpawnAll(_, _, _, _, _, _)
SpawnRest(m, ov, kind, updates, parent, kids) ==
  SpawnAll(m, ov, kind, updates, parent, Append(kids, m.ret))

SpawnAll(m, ov, kind, updates, parent, kids) ==
  IF updates = <<>> THEN [m EXCEPT !.ret = kids]
  ELSE SpawnRest(CallOne(m, ov, kind, Head(updates), parent), ov, kind, Tail(updates),
                 parent, kids)

KidDone(tsks, k) == k = 0 \/ tsks[k].pc = "done"
AllKidsDone(tsks, kids) == \A i \in 1..Len(kids) : KidDone(tsks, kids[i])

\* `await Promise.all(calls)` reached by task t, m.ret holding the handles of
\* the calls: t waits in "join", and is ready at once when every call has
\* already returned
JoinOn(m, t) ==
  [m EXCEPT !.tasks[t].pc = "join", !.tasks[t].kids = m.ret,
            !.queue = IF AllKidsDone(m.tasks, m.ret) THEN Append(@, t) ELSE @]

\* the call awaited by task par has returned
Notify(m, par) ==
  IF par = 0 THEN m
  ELSE IF m.tasks[par].pc = "populate" \/ AllKidsDone(m.tasks, m.tasks[par].kids)
       THEN [m EXCEPT !.queue = Append(@, par)]
       ELSE m

\* task t returns result: whoever awaits it becomes ready
Complete(m, t, result) ==
  Notify([m EXCEPT !.tasks[t].pc = "done", !.tasks[t].res = result], m.tasks[t].parent)

\* ------------------------------------------------------------------------
\* buildPackageJsonUpdates: walking the check groups

\* what the history keeps of a merged entry that has requires: the entry, and
\* the plan, overrides and earlier merged packages its requires were judged on
Accepted(e, plan, ov, extra) == [entry |-> e, plan |-> plan, ov |-> ov, extra |-> extra]

LogAccepted(m, e, plan, ov, extra) ==
  IF e.requires = <<>> THEN m
  ELSE [m EXCEPT !.log = @ \cup {Accepted(e, plan, ov, extra)}]

\* the walk's position kept across an await
Saved(m, t, groups, gi, ei, acc, pc) ==
  [m EXCEPT !.tasks[t].groups = groups, !.tasks[t].gi = gi, !.tasks[t].ei = ei,
            !.tasks[t].acc = acc, !.tasks[t].pc = pc]

\* history: the plan and the overrides the requires of the entry at the
\* walk's position were judged on, kept while the user is asked
Judged(m, t, ov) == [m EXCEPT !.tasks[t].judged = <<[plan |-> m.plan, ov |-> ov]>>]

\* a slip: the packages merged from earlier entries are not looked at
RequiresMetByPlan(plan, ov, e, acc) == areRequirementsMet(plan, ov, e.requires, <<>>)

\* this.areRequirementsMet(packageUpdate.requires, filteredUpdates)
RequiresMet(plan, ov, e, acc) == areRequirementsMet(plan, ov, e.requires, acc)

\* whether the user is asked about a walked entry: in interactive mode, when
\* its requires are met and it has an x-prompt
Asks(e, met) == interactive /\ met /\ e.xprompt

\* history: entry ei of group gi as the walker came to it, with the packages
\* merged from the earlier entries of the group, whether its requires were
\* met, and, when it has requires, the plan and the overrides they were
\* judged on; answer: "none", or what the user said ("yes", "no")
Walked(gi, ei, e, plan, ov, acc, met) ==
  [gi |-> gi, ei |-> ei, extra |-> acc, met |-> met,
   plan |-> IF e.requires = <<>> THEN <<>> ELSE plan,
   ov |-> IF e.requires = <<>> THEN NoMap ELSE ov,
   asked |-> Asks(e, met), answer |-> "none"]

LogWalked(m, ov, t, gi, ei, e, acc) ==
  [m EXCEPT !.tasks[t].walk =
              Append(@, Walked(gi, ei, e, m.plan, ov, acc, RequiresMet(m.plan, ov, e, acc)))]

\* runPackageJsonUpdatesConfirmationPrompt: without an x-prompt the promise
\* is already resolved (true) and the await resumes at once; with one, the
\* user is asked
AwaitPrompt(m, t, xprompt) ==
  IF xprompt THEN [m EXCEPT !.tasks[t].pc = "prompt"]
  ELSE [m EXCEPT !.tasks[t].ans = TRUE, !.queue = Append(@, t)]

\* the body of `for (const packageUpdate of packageToCheck.updates)` from
\* entry ei on, to its next await or, past the last entry, to the
\* Promise.all over the merged updates
RECURSIVE Walk(_, _, _, _, _, _, _)

\* a slip: the confirmation is awaited in either mode
WalkAsking(m, ov, t, groups, gi, ei, acc) ==
  IF ei > Len(groups[gi].updates)
  THEN JoinOn(SpawnAll(Saved(m, t, groups, gi, ei, acc, "join"), ov, "build", acc, t, <<>>), t)
  ELSE IF ~RequiresMet(m.plan, ov, groups[gi].updates[ei], acc)
  THEN Walk(LogWalked(m, ov, t, gi, ei, groups[gi].updates[ei], acc), ov, t, groups, gi,
            ei + 1, acc)
  ELSE AwaitPrompt(Saved(Judged(LogWalked(m, ov, t, gi, ei, groups[gi].updates[ei], acc),
                                t, ov),
                         t, groups, gi, ei, acc, "answered"),
                   t, groups[gi].updates[ei].xprompt)

Walk(m, ov, t, groups, gi, ei, acc) ==
  IF ei > Len(groups[gi].updates)
  THEN JoinOn(SpawnAll(Saved(m, t, groups, gi, ei, acc, "join"), ov, "build", acc, t, <<>>), t)
  ELSE IF ~RequiresMet(m.plan, ov, groups[gi].updates[ei], acc)
  THEN Walk(LogWalked(m, ov, t, gi, ei, groups[gi].updates[ei], acc), ov, t, groups, gi,
            ei + 1, acc)
  ELSE IF ~interactive
  THEN Walk(LogAccepted(LogWalked(m, ov, t, gi, ei, groups[gi].updates[ei], acc),
                        groups[gi].updates[ei], m.plan, ov, acc),
            ov, t, groups, gi, ei + 1, PutAll(acc, groups[gi].updates[ei].packages))
  ELSE AwaitPrompt(Saved(Judged(LogWalked(m, ov, t, gi, ei, groups[gi].updates[ei], acc),
                                t, ov),
                         t, groups, gi, ei, acc, "answered"),
                   t, groups[gi].updates[ei].xprompt)

\* `for (const packageToCheck of packagesToCheck)` from group gi on
ContinueBuild(m, ov, t, groups, gi) ==
  IF gi > Len(groups) THEN Complete(m, t, <<>>)
  ELSE Walk(m, ov, t, groups, gi, 1, <<>>)

\* ------------------------------------------------------------------------
\* createMigrateJson

Migration(package, g) ==
  [package |-> package, name |-> g.name, version |-> g.version, requires |-> g.requires]

\* a slip: the generator's version is not compared with the planned version
KeepGeneratorAnyPlanned(plan, ov, g, currentVersion, version) ==
  /\ g.version # Null
  /\ gt(g.version, currentVersion)
  /\ areRequirementsMet(plan, ov, g.requires, <<>>)

\* the filter of createMigrateJson on one generator
KeepGenerator(plan, ov, g, currentVersion, version) ==
  /\ g.version # Null
  /\ gt(g.version, currentVersion)
  /\ lte(g.version, version)
  /\ areRequirementsMet(plan, ov, g.requires, <<>>)

\* the kept generators of a package, annotated, in declared order
RECURSIVE KeptGenerators(_, _, _, _, _, _)
KeptGenerators(plan, ov, packageName, generators, currentVersion, version) ==
  IF generators = <<>> THEN <<>>
  ELSE (IF KeepGenerator(plan, ov, Head(generators), currentVersion, version)
        THEN <<Migration(packageName, Head(generators))>> ELSE <<>>)
       \o KeptGenerators(plan, ov, packageName, Tail(generators), currentVersion, version)

\* the migrations of one package
PackageMigrations(plan, ov, packageName, version) ==
  KeptGenerators(plan, ov, packageName, fetchResult(packageName, version).generators,
                 getPkgVersion(ov, packageName), version)

\* one call of createMigrateJson's map callback up to its await
CallGenerator(m, ov, r) ==
  IF getPkgVersion(ov, r.name) = Null THEN m
  ELSE AwaitFetch(m, NewTask("gen", r.name, Target(r.version, NoAdd), 0, "fetch",
                             <<r.name, r.version>>))

\* createMigrateJson up to its await: one call per planned package, in key
\* order; a package without installed version returns [] at once
RECURSIVE CallGenerators(_, _, _)
CallGenerators(m, ov, plan) ==
  IF plan = <<>> THEN m
  ELSE CallGenerators(CallGenerator(m, ov, Head(plan)), ov, Tail(plan))

GenTasks(tsks) == {i \in 1..Len(tsks) : tsks[i].kind = "gen"}

\* migrations.flat(): the per-package lists in the order of the calls
RECURSIVE FlatGen(_, _)
FlatGen(tsks, i) ==
  IF i > Len(tsks) THEN <<>>
  ELSE (IF tsks[i].kind = "gen" THEN tsks[i].res ELSE <<>>) \o FlatGen(tsks, i + 1)

\* ------------------------------------------------------------------------
\* The state machine

\* a plan that has made this many calls makes no more progress
MaxTasks == 12

\* the requests made of the fetcher: (packageName, packageVersion)
FetchRequests ==
  {<<"a", LATEST>>, <<"a", Ver(2, 0, 0)>>, <<"b", Ver(1, 0, 0)>>, <<"c", LATEST>>}

\* the keys of migrationsCache: packageName + '-' + packageVersion, for the
\* requested and for the resolved versions
FetchKeys ==
  FetchRequests \cup {<<k[1], v>> : k \in FetchRequests, v \in {Ver(1, 0, 0), Ver(2, 0, 0)}}

\* the files of the workspace before the command: the root manifest's two
\* sections, no migrations.json; outcome "none": the command has not ended
Disk(sc) ==
  [dependencies |-> sc.dependencies, devDependencies |-> sc.devDependencies,
   hasMigrationsJson |-> FALSE, migrationsJson |-> <<>>, outcome |-> "none"]

NoResult == [packageJson |-> <<>>, migrations |-> <<>>, returned |-> FALSE]

\* an error: its message, as the sequence of its parts
Error(message) == [message |-> message]
NoError == Error(<<>>)
NoFailure == [rejected |-> NoError, thrown |-> NoError]

\* a new Migrator for the inputs Runs[run]
NewMigrator ==
  /\ status = "init"
  /\ overrides = Runs[run].opts.from
  /\ packageJsonUpdates = <<>>
  /\ collectedVersions = NoMap
  /\ tasks = <<>>
  /\ queue = <<>>
  /\ fetched = {}
  /\ migrations = <<>>
  /\ previous = NoResult
  /\ failure = NoFailure
  /\ proposals = <<>>
  /\ expansions = <<>>
  /\ accepted = {}
  /\ normalized = {}
  /\ contributed = {}
  /\ retained = {}
  /\ files = Disk(Runs[run].sc)

\* the caches of createFetcher() are empty
NewFetcher ==
  /\ migrationsCache = [k \in FetchKeys |-> 0]
  /\ resolvedVersionCache = {}
  /\ promises = <<>>
  /\ calls = <<>>
  /\ lookups = [k \in FetchKeys |-> 0]

\* parseMigrationsOptions has not been called
NoOptions == [given |-> FALSE]
NotParsed == [type |-> "none"]

NoParser ==
  /\ options = NoOptions
  /\ parsed = NotParsed

\* the names the resolver is asked about, and a resolver nobody has called
ResolverNames == {"nx", "@nrwl/workspace", "a"}
NoVersions == [n \in ResolverNames |-> Null]
NotAsked == [called |-> FALSE]

NoResolver ==
  /\ cache = NoVersions
  /\ modules = NoVersions
  /\ asked = NotAsked
  /\ first = NoVersions

\* executeMigrations has not been called
NoRunner ==
  /\ exec = [pc |-> "none"]
  /\ workspace = [deps |-> <<>>]

\* installPlugins has not been called
NotInstalling == [pc |-> "none"]
NoInstaller ==
  /\ plugins = <<>>
  /\ position = 1
  /\ succeededPlugins = <<>>
  /\ failedPlugins = <<>>
  /\ initRuns = <<>>
  /\ installation = NotInstalling

Init ==
  /\ run \in 1..Len(Runs)
  /\ NewMigrator
  /\ NewFetcher
  /\ NoParser
  /\ NoResolver
  /\ NoRunner
  /\ NoInstaller

Cur == Mach(packageJsonUpdates, tasks, queue, proposals, accepted)

\* the histories a populate call extends
Hist(exp, norm, contrib, ret) ==
  [exp |-> exp, norm |-> norm, contrib |-> contrib, ret |-> ret]
SameHist == Hist(expansions, normalized, contributed, retained)

\* the root buildPackageJsonUpdates call (task 1) has returned and
\* createMigrateJson has made its calls (g): with none to wait for, the
\* result is returned at once
CommitGenerate(g) ==
  /\ tasks' = g.tasks
  /\ queue' = g.queue
  /\ status' = IF GenTasks(g.tasks) = {} THEN "done" ELSE "generating"
  /\ migrations' = <<>>

\* Migrator.updatePackageJson: the end of a stretch of synchronous code.
\* When the root buildPackageJsonUpdates call has returned, createMigrateJson
\* is called; when all its calls have returned, the plan and the migration
\* list are returned.
Commit(m, coll, ov, h) ==
  /\ packageJsonUpdates' = m.plan
  /\ proposals' = m.props
  /\ accepted' = m.log
  /\ collectedVersions' = coll
  /\ overrides' = ov
  /\ expansions' = h.exp
  /\ normalized' = h.norm
  /\ contributed' = h.contrib
  /\ retained' = h.ret
  /\ UNCHANGED <<run, fetched, previous, failure, files>>
  /\ UNCHANGED apart
  /\ IF status = "planning" /\ m.tasks[1].pc = "done"
     THEN CommitGenerate(CallGenerators(m, ov, m.plan))
     ELSE IF status = "generating" /\ \A i \in GenTasks(m.tasks) : m.tasks[i].pc = "done"
     THEN /\ tasks' = m.tasks
          /\ queue' = m.queue
          /\ status' = "done"
          /\ migrations' = FlatGen(m.tasks, 1)
     ELSE /\ tasks' = m.tasks
          /\ queue' = m.queue
          /\ UNCHANGED <<status, migrations>>

Same(m) == Commit(m, collectedVersions, overrides, SameHist)

Started(m) ==
  /\ packageJsonUpdates' = m.plan
  /\ proposals' = m.props
  /\ tasks' = m.tasks
  /\ queue' = m.queue

\* updatePackageJson(targetPackage, targetVersion) is called
Start ==
  /\ status = "init"
  /\ status' = "planning"
  /\ Started(CallBuild(Cur, overrides, Sc.root, Target(Sc.rootVersion, NoAdd), 0))
  /\ UNCHANGED <<run, overrides, collectedVersions, fetched, migrations, previous,
                 failure, expansions, accepted, normalized, contributed, retained, files>>
  /\ UNCHANGED apart

\* the command is run again on the same inputs, with a new Migrator and a new
\* fetcher; what the first run returned is kept for comparison
Again ==
  /\ status = "done"
  /\ ~previous.returned
  /\ previous' = [packageJson |-> packageJsonUpdates, migrations |-> migrations,
                  returned |-> TRUE]
  /\ status' = "init"
  /\ overrides' = Opts.from
  /\ packageJsonUpdates' = <<>>
  /\ collectedVersions' = NoMap
  /\ tasks' = <<>>
  /\ queue' = <<>>
  /\ fetched' = {}
  /\ migrations' = <<>>
  /\ proposals' = <<>>
  /\ expansions' = <<>>
  /\ accepted' = {}
  /\ normalized' = {}
  /\ contributed' = {}
  /\ retained' = {}
  /\ files' = Disk(Sc)
  /\ UNCHANGED <<run, failure>>
  /\ UNCHANGED apart

Running == status \in {"planning", "generating"}

Awaiting(key) == {i \in 1..Len(tasks) : tasks[i].pc = "fetch" /\ tasks[i].key = key}
PendingKeys == {tasks[i].key : i \in {j \in 1..Len(tasks) : tasks[j].pc = "fetch"}} \ fetched

\* the ids of a set of tasks in increasing order
RECURSIVE Ascending(_)
Ascending(ids) ==
  IF ids = {} THEN <<>>
  ELSE <<CHOOSE i \in ids : \A j \in ids : i <= j>>
       \o Ascending(ids \ {CHOOSE i \in ids : \A j \in ids : i <= j})

\* a fetch promise resolves: the calls awaiting it become ready, in the order
\* in which they awaited it.  Promise reactions run before the next I/O event,
\* so this happens only when no call is ready.
FetchResolve(key) ==
  /\ Running
  /\ queue = <<>>
  /\ key \in PendingKeys
  /\ resolvePackageVersion(key[1], key[2]) # Null
  /\ fetched' = fetched \cup {key}
  /\ queue' = Ascending(Awaiting(key))
  /\ UNCHANGED <<run, status, overrides, packageJsonUpdates, collectedVersions, tasks,
                 migrations, previous, failure, files>>
  /\ UNCHANGED hist
  /\ UNCHANGED apart

\* the text the catch of populatePackageJsonUpdatesAndGetPackagesToCheck looks
\* for in the message, and the hint it adds
NoMatchingVersion == "No matching version"
RunMigrateWithTo == "Run migrate with --to=\"package1@version1,package2@version2\""

\* e?.message?.includes(text)
Includes(e, text) == \E i \in DOMAIN e.message : e.message[i] = text

\* what the package manager says of a version that is not published, and what
\* it says when the registry cannot be reached
VersionNotFound == Error(<<"npm ERR! code ETARGET", NoMatchingVersion, "found">>)
RegistryUnreachable == Error(<<"npm ERR! code ENOTFOUND", "request failed">>)

\* the errors the fetch of a request can reject with: a version that does not
\* exist cannot be found, and any request can fail for another reason
FetchErrors(key) ==
  {RegistryUnreachable}
    \cup (IF resolvePackageVersion(key[1], key[2]) = Null THEN {VersionNotFound} ELSE {})

\* a slip: the error is rethrown as it came
FetchFailedRethrown(kind, e) == e

\* a slip: every error gets the hint
FetchFailedHinted(kind, e) ==
  IF kind = "populate" THEN Error(e.message \o <<RunMigrateWithTo>>) ELSE e

\* what the call awaiting a rejected fetch throws: populate... catches the
\* error and throws a new one with the hint when the message has the text,
\* else the error itself; createMigrateJson has no catch
FetchFailed(kind, e) ==
  IF kind = "populate" /\ Includes(e, NoMatchingVersion)
  THEN Error(e.message \o <<RunMigrateWithTo>>)
  ELSE e

\* a fetch promise rejects: the first call awaiting it throws, none of its
\* callers catches, and updatePackageJson rejects with what was thrown
FetchReject(key, e) ==
  /\ Running
  /\ queue = <<>>
  /\ key \in PendingKeys
  /\ e \in FetchErrors(key)
  /\ status' = "failed"
  /\ failure' = [rejected |-> e,
                 thrown |-> FetchFailed(tasks[Ascending(Awaiting(key))[1]].kind, e)]
  /\ UNCHANGED <<run, overrides, packageJsonUpdates, collectedVersions, tasks, queue,
                 fetched, migrations, previous, files>>
  /\ UNCHANGED hist
  /\ UNCHANGED apart

\* the user answers the confirmation prompt of task t
PromptAnswer(t, answer) ==
  /\ Running
  /\ queue = <<>>
  /\ t \in 1..Len(tasks)
  /\ tasks[t].pc = "prompt"
  /\ tasks' = [tasks EXCEPT ![t].pc = "answered", ![t].ans = answer,
                            ![t].walk[Len(tasks[t].walk)].answer =
                              IF answer THEN "yes" ELSE "no"]
  /\ queue' = <<t>>
  /\ UNCHANGED <<run, status, overrides, packageJsonUpdates, collectedVersions,
                 fetched, migrations, previous, failure, files>>
  /\ UNCHANGED hist
  /\ UNCHANGED apart

Without(seq, i) == SubSeq(seq, 1, i - 1) \o SubSeq(seq, i + 1, Len(seq))

\* the planner's state as the ready call queue[i] finds it when it resumes
Resumed(i) == [Cur EXCEPT !.queue = Without(queue, i)]

Ready(i, kind, pc) ==
  /\ Running
  /\ Len(tasks) < MaxTasks
  /\ i \in 1..Len(queue)
  /\ tasks[queue[i]].kind = kind
  /\ tasks[queue[i]].pc = pc

\* a slip: no pruning
PrunedNever(coll, targetPackage, targetVersion) == FALSE

\* a slip: `gt` for `gte`, the collected version itself is not pruned
PrunedOnlyBelow(coll, targetPackage, targetVersion) ==
  coll[targetPackage] # Null /\ Compare(coll[targetPackage], targetVersion) = 1

\* the pruning check of populatePackageJsonUpdatesAndGetPackagesToCheck
Pruned(coll, targetPackage, targetVersion) ==
  coll[targetPackage] # Null /\ semverGte(coll[targetPackage], targetVersion)

\* ... its end: a check group when an entry is gated, else the calls for the
\* merged packages and the wait for them
PopulateReturn(m, t, coll, got, h) ==
  IF shouldCheckUpdates(got.packageJsonUpdates)
  THEN Commit(Complete(m, t, <<[package |-> m.tasks[t].pkg,
                                updates |-> got.packageJsonUpdates]>>),
              coll, got.ov, h)
  ELSE Commit(JoinOn(SpawnAll(m, got.ov, "populate",
                              MergePackages(<<>>, got.packageJsonUpdates), t, <<>>), t),
              coll, got.ov, h)

\* history: the members normalizePackageGroup had to consider for propagation
\* (the parent has an override; the member is a bare name or has version '*'),
\* each with the override it had before the call
Propagations(ov, packageName, group) ==
  IF ov[packageName] = Null THEN {}
  ELSE {[parent |-> packageName, member |-> group.items[i].package,
         before |-> ov[group.items[i].package], inherited |-> ov[packageName]] :
          i \in {j \in 1..Len(group.items) : Propagates(group.kind, group.items[j])}}

\* history: the entries of a manifest that were kept, with the installed
\* version and the resolved target they were kept under
Contributions(ov, packageName, targetVersion, updates) ==
  {[package |-> packageName, version |-> updates[i].version,
    hasPackages |-> updates[i].hasPackages, packages |-> updates[i].packages,
    installed |-> getPkgVersion(ov, packageName), target |-> targetVersion] :
     i \in 1..Len(updates)}

\* history: one call of filterPackageJsonUpdates, with the entries it was
\* given (the manifest's and the package group's), the entries it returned,
\* and the overrides and collected versions it read
Filtering(ov, coll, packageName, targetVersion, packageGroup, migrationConfig, kept) ==
  [package |-> packageName,
   given |-> WithGroupEntry(packageGroup, targetVersion, migrationConfig.packageJsonUpdates),
   kept |-> kept, ov |-> ov, coll |-> coll, target |-> targetVersion]

\* ... the package's own update is recorded
PopulateRecord(m, t, migrationConfig, coll, got) ==
  PopulateReturn(
    [m EXCEPT !.plan = addPackageJsonUpdate(@, m.tasks[t].pkg, migrationConfig.version,
                                            m.tasks[t].target.addToPackageJson),
              !.props = Append(@, <<m.tasks[t].pkg, migrationConfig.version>>),
              !.tasks[t].order = got.packageGroupOrder],
    t, coll, got,
    Hist(Append(expansions, <<m.tasks[t].pkg, migrationConfig.version>>),
         normalized \cup Propagations(overrides, m.tasks[t].pkg,
                                      EffectiveGroup(m.tasks[t].pkg, migrationConfig.version,
                                                     migrationConfig.packageGroup)),
         contributed \cup Contributions(got.ov, m.tasks[t].pkg, migrationConfig.version,
                                        got.packageJsonUpdates),
         retained \cup {Filtering(got.ov, coll, m.tasks[t].pkg, migrationConfig.version,
                                  normalizePackageGroup(overrides, m.tasks[t].pkg,
                                                        migrationConfig.version,
                                                        migrationConfig.packageGroup).items,
                                  migrationConfig, got.packageJsonUpdates)}))

\* ... collectedVersions is set and the manifest's updates are worked out
PopulateExpand(m, t, migrationConfig, coll) ==
  PopulateRecord(m, t, migrationConfig, coll,
                 getPackageJsonUpdatesFromMigrationConfig(
                   overrides, coll, m.tasks[t].pkg, migrationConfig.version, migrationConfig))

PopulateResume(m, t, migrationConfig) ==
  IF Pruned(collectedVersions, m.tasks[t].pkg, migrationConfig.version)
  THEN Same(Complete([m EXCEPT !.tasks[t].pruned = TRUE], t, <<>>))
  ELSE PopulateExpand(m, t, migrationConfig,
                      [collectedVersions EXCEPT ![m.tasks[t].pkg] = migrationConfig.version])

\* populatePackageJsonUpdatesAndGetPackagesToCheck after `await this.fetch`
PopulateAfterFetch(i) ==
  /\ Ready(i, "populate", "fetch")
  /\ PopulateResume(Resumed(i), queue[i],
                    fetchResult(tasks[queue[i]].key[1], tasks[queue[i]].key[2]))

\* the results of the calls a task waited for, in the order of the calls
KidResults(tsks, kids) ==
  [k \in 1..Len(kids) |-> IF kids[k] = 0 THEN <<>> ELSE tsks[kids[k]].res]

\* ... after `await Promise.all`: drop the empty results, flatten, sort
PopulateAfterJoin(i) ==
  /\ Ready(i, "populate", "join")
  /\ Same(Complete(Resumed(i), queue[i],
                   SortByGroupOrder(Flat(KidResults(tasks, tasks[queue[i]].kids)),
                                    tasks[queue[i]].order)))

\* buildPackageJsonUpdates after `await populate...`
BuildAfterPopulate(i) ==
  /\ Ready(i, "build", "populate")
  /\ Same(ContinueBuild(Resumed(i), overrides, queue[i],
                        KidResults(tasks, tasks[queue[i]].kids)[1], 1))

\* a slip: the entry is merged whatever the answer
AfterAnswerMerges(m, t, tk) ==
  Walk(LogAccepted(m, tk.groups[tk.gi].updates[tk.ei], tk.judged[1].plan,
                   tk.judged[1].ov, tk.acc),
       overrides, t, tk.groups, tk.gi, tk.ei + 1,
       PutAll(tk.acc, tk.groups[tk.gi].updates[tk.ei].packages))

\* the walk goes on after the answer: a confirmed entry is merged
AfterAnswer(m, t, tk) ==
  IF tk.ans
  THEN Walk(LogAccepted(m, tk.groups[tk.gi].updates[tk.ei], tk.judged[1].plan,
                        tk.judged[1].ov, tk.acc),
            overrides, t, tk.groups, tk.gi, tk.ei + 1,
            PutAll(tk.acc, tk.groups[tk.gi].updates[tk.ei].packages))
  ELSE Walk(m, overrides, t, tk.groups, tk.gi, tk.ei + 1, tk.acc)

\* ... after `await this.runPackageJsonUpdatesConfirmationPrompt`
BuildAfterPrompt(i) ==
  /\ Ready(i, "build", "answered")
  /\ Same(AfterAnswer(Resumed(i), queue[i], tasks[queue[i]]))

\* ... after `await Promise.all` over the merged updates of a group
BuildAfterJoin(i) ==
  /\ Ready(i, "build", "join")
  /\ Same(ContinueBuild(Resumed(i), overrides, queue[i], tasks[queue[i]].groups,
                        tasks[queue[i]].gi + 1))

\* createMigrateJson's per-package call after `await this.fetch`
GenAfterFetch(i) ==
  /\ Ready(i, "gen", "fetch")
  /\ Same(Complete(Resumed(i), queue[i],
                   PackageMigrations(packageJsonUpdates, overrides, tasks[queue[i]].pkg,
                                     tasks[queue[i]].key[2])))

\* a slip: only a package that is being added is written
WritePackageAddedOnly(json, u) ==
  IF u.addToPackageJson # NoAdd /\ json.devDependencies[u.name] = Null
     /\ json.dependencies[u.name] = Null
  THEN [json EXCEPT ![u.addToPackageJson][u.name] = u.version]
  ELSE json

\* a slip: every section that lists the package is rewritten
WritePackageEachSection(json, u) ==
  IF json.devDependencies[u.name] # Null \/ json.dependencies[u.name] # Null
  THEN [json EXCEPT
          !.devDependencies[u.name] = IF @ # Null THEN u.version ELSE @,
          !.dependencies[u.name] = IF @ # Null THEN u.version ELSE @]
  ELSE IF u.addToPackageJson # NoAdd
  THEN [json EXCEPT ![u.addToPackageJson][u.name] = u.version]
  ELSE json

\* updatePackageJson(root, updatedPackages) on one planned package: the
\* devDependencies entry when there is one, else the dependencies entry when
\* there is one, else a new entry in the section addToPackageJson names
WritePackage(json, u) ==
  IF json.devDependencies[u.name] # Null
  THEN [json EXCEPT !.devDependencies[u.name] = u.version]
  ELSE IF json.dependencies[u.name] # Null
  THEN [json EXCEPT !.dependencies[u.name] = u.version]
  ELSE IF u.addToPackageJson # NoAdd
  THEN [json EXCEPT ![u.addToPackageJson][u.name] = u.version]
  ELSE json

\* the manifest writer: updatePackageJson(root, updatedPackages)
RECURSIVE WritePackageJson(_, _)
WritePackageJson(json, updatedPackages) ==
  IF updatedPackages = <<>> THEN json
  ELSE WritePackageJson(WritePackage(json, Head(updatedPackages)), Tail(updatedPackages))

\* readNxVersion(originalPackageJson)
readNxVersion(sc) ==
  IF sc.devDependencies["nx"] # Null THEN sc.devDependencies["nx"]
  ELSE IF sc.dependencies["nx"] # Null THEN sc.dependencies["nx"]
  ELSE IF sc.devDependencies["@nrwl/workspace"] # Null THEN sc.devDependencies["@nrwl/workspace"]
  ELSE sc.dependencies["@nrwl/workspace"]

SplitBoundary == Ver(15, 7, 0)

\* the migration addSplitConfigurationMigrationIfAvailable puts first
SplitMigration ==
  [package |-> "@nrwl/workspace",
   name |-> "15-7-0-split-configuration-into-project-json-files",
   version |-> PreVer(15, 7, 0, 1), requires |-> <<>>]

\* addSplitConfigurationMigrationIfAvailable(from, packageJson) throws when
\* semver's gte or lt is given a text that is not a version
SplitThrows(from, plan) ==
  /\ Has(plan, "@nrwl/workspace")
  /\ \/ ~Valid(PlannedVersion(plan, "@nrwl/workspace"))
     \/ /\ semverGte(PlannedVersion(plan, "@nrwl/workspace"), SplitBoundary)
        /\ ~Valid(from)

addSplitConfigurationMigrationIfAvailable(from, plan) ==
  IF ~Has(plan, "@nrwl/workspace") THEN <<>>
  ELSE IF /\ semverGte(PlannedVersion(plan, "@nrwl/workspace"), SplitBoundary)
          /\ semverLt(from, SplitBoundary)
  THEN <<SplitMigration>>
  ELSE <<>>

\* the end of generateMigrationsJsonAndUpdatePackageJson
WrittenFiles(json, from, plan, migs) ==
  IF migs = <<>> THEN [json EXCEPT !.outcome = "success"]
  ELSE IF SplitThrows(from, plan) THEN [json EXCEPT !.outcome = "failed"]
  ELSE [json EXCEPT !.hasMigrationsJson = TRUE,
                    !.migrationsJson = addSplitConfigurationMigrationIfAvailable(from, plan) \o migs,
                    !.outcome = "success"]

\* generateMigrationsJsonAndUpdatePackageJson after `await
\* migrator.updatePackageJson`: the root manifest is rewritten and, with a
\* migration to run, migrations.json is created
\* the plan written whether or not it was completed
WriteFilesOfFailedPlan ==
  /\ status \in {"done", "failed"}
  /\ files.outcome = "none"
  /\ files' = WrittenFiles(WritePackageJson(files, packageJsonUpdates), readNxVersion(Sc),
                           packageJsonUpdates, migrations)
  /\ UNCHANGED <<run, status, overrides, packageJsonUpdates, collectedVersions, tasks,
                 queue, fetched, migrations, previous, failure>>
  /\ UNCHANGED hist
  /\ UNCHANGED apart

WriteFiles ==
  /\ status = "done"
  /\ files.outcome = "none"
  /\ files' = WrittenFiles(WritePackageJson(files, packageJsonUpdates), readNxVersion(Sc),
                           packageJsonUpdates, migrations)
  /\ UNCHANGED <<run, status, overrides, packageJsonUpdates, collectedVersions, tasks,
                 queue, fetched, migrations, previous, failure>>
  /\ UNCHANGED hist
  /\ UNCHANGED apart

\* The command is run, the registry answers, the user answers, and ready
\* calls resume; here in any order
Next ==
  \/ Start
  \/ Again
  \/ WriteFiles
  \/ \E key \in PendingKeys : FetchResolve(key)
  \/ \E key \in PendingKeys, e \in {VersionNotFound, RegistryUnreachable} : FetchReject(key, e)
  \/ \E t \in 1..Len(tasks), answer \in BOOLEAN : PromptAnswer(t, answer)
  \/ \E i \in 1..Len(queue) : PopulateAfterFetch(i)
  \/ \E i \in 1..Len(queue) : PopulateAfterJoin(i)
  \/ \E i \in 1..Len(queue) : BuildAfterPopulate(i)
  \/ \E i \in 1..Len(queue) : BuildAfterPrompt(i)
  \/ \E i \in 1..Len(queue) : BuildAfterJoin(i)
  \/ \E i \in 1..Len(queue) : GenAfterFetch(i)

Spec == Init /\ [][Next]_vars

\* ready calls resume in the order in which they became ready (the microtask
\* queue)
NextInOrder ==
  \/ Start
  \/ Again
  \/ WriteFiles
  \/ \E key \in PendingKeys : FetchResolve(key)
  \/ \E key \in PendingKeys, e \in {VersionNotFound, RegistryUnreachable} : FetchReject(key, e)
  \/ \E t \in 1..Len(tasks), answer \in BOOLEAN : PromptAnswer(t, answer)
  \/ PopulateAfterFetch(1)
  \/ PopulateAfterJoin(1)
  \/ BuildAfterPopulate(1)
  \/ BuildAfterPrompt(1)
  \/ BuildAfterJoin(1)
  \/ GenAfterFetch(1)

SpecInOrder == Init /\ [][NextInOrder]_vars

\* a step is possible: the command can be run, a ready call can resume, or,
\* with no call ready, a request or a prompt is pending
CanStep ==
  \/ status = "init"
  \/ status = "done" /\ ~previous.returned
  \/ status = "done" /\ files.outcome = "none"
  \/ Running /\ queue # <<>> /\ Len(tasks) < MaxTasks
  \/ /\ Running
     /\ queue = <<>>
     /\ PendingKeys # {} \/ \E t \in 1..Len(tasks) : tasks[t].pc = "prompt"

\* the behaviours in which steps are taken as long as one is possible: the
\* event loop runs a ready call, the registry answers every request and the
\* user answers every prompt.  This is WF_vars(Next) with ENABLED <<Next>>_vars
\* written out as CanStep.
FairSpec == Spec /\ (<>[]CanStep => []<><<Next>>_vars)

\* ------------------------------------------------------------------------
\* The fetcher (createFetcher).  The registry and the package manager are
\* outside the program: each of their operations ends well or fails.

MaxCalls == 3

\* the message of the error downloadPackageMigrationsFromRegistry throws
MigrationsFileMissing == "Failed to find migrations file"

NoManifest == [version |-> Null, config |-> "", via |-> "", by |-> 0]

\* the nx-migrations / ng-update metadata of a published package: "none",
\* "group" (a package group, no migrations file) or "file"
ViewConfig(pkg) ==
  IF Sc.man[pkg] = EmptyMan THEN "none"
  ELSE IF Sc.man[pkg].packageJsonUpdates = <<>> /\ Sc.man[pkg].generators = <<>> THEN "group"
  ELSE "file"

\* the object a path returned: the resolved version, what it holds, the path
\* that made it and the promise whose chain made it
Manifest(pkg, version, via, by) ==
  [version |-> version, config |-> ViewConfig(pkg), via |-> via, by |-> by]

\* a `migrations` promise of nxMigrateFetcher.  fetchMigrations has been
\* called and resolvePackageVersionUsingRegistry is awaited (its first
\* callback reads nothing another call can change).  faults, raised and
\* installs are history: the steps that failed, the errors thrown inside, the
\* calls of getPackageMigrationsUsingInstall.
NewPromise(key) ==
  [key |-> key, pc |-> "resolving", resolved |-> Null, follows |-> 0, dirs |-> {},
   res |-> NoManifest, err |-> "", faults |-> {}, raised |-> {}, installs |-> 0]

Settled(pr) == pr.pc \in {"resolved", "rejected"}

\* the `.then((result) => ...)` of nxMigrateFetcher: the promise resolves
Fulfilled(pr, res) == [pr EXCEPT !.pc = "resolved", !.res = res]

Rejected(pr, error) == [pr EXCEPT !.pc = "rejected", !.err = error]

\* getPackageMigrationsUsingInstall to its first await: a temporary
\* directory is created and the package is being added
getPackageMigrationsUsingInstall(pr) ==
  [pr EXCEPT !.pc = "adding", !.dirs = @ \cup {"install"}, !.installs = @ + 1]

\* a slip: no fallback, the error is thrown on
CaughtRethrown(pr, error) == Rejected(pr, error)

\* a slip: the error of downloadPackageMigrationsFromRegistry is thrown on
CaughtUnlessMissing(pr, error) ==
  IF error = MigrationsFileMissing THEN Rejected(pr, error)
  ELSE getPackageMigrationsUsingInstall(pr)

\* the `.catch(() => getPackageMigrationsUsingInstall(...))` of fetchMigrations
Caught(pr, error) == getPackageMigrationsUsingInstall(pr)

\* a slip: the promise cached under the resolved version is not looked for
AliasedNever(cached, key, resolvedVersion) == FALSE

\* resolvedVersion !== packageVersion && migrationsCache[name-resolvedVersion]
Aliased(cached, key, resolvedVersion) ==
  resolvedVersion # key[2] /\ cached[<<key[1], resolvedVersion>>] # 0

\* a slip: the directory is removed only when the work in it went well
CleanupOnSuccess(dirs, dir, ok) == IF ok THEN dirs \ {dir} ELSE dirs

\* `finally { await cleanup(); }`: the temporary directory is removed
Cleanup(dirs, dir, ok) == dirs \ {dir}

Failed(pr, step) == [pr EXCEPT !.faults = @ \cup {step}]

\* nxMigrateFetcher(packageName, packageVersion): the cached promise, or a new
\* one cached under the request key
CallFetch(key) ==
  /\ Len(calls) < MaxCalls
  /\ IF migrationsCache[key] # 0
     THEN /\ calls' = Append(calls, [key |-> key, promise |-> migrationsCache[key]])
          /\ UNCHANGED <<migrationsCache, resolvedVersionCache, promises, lookups>>
     ELSE /\ promises' = Append(promises, NewPromise(key))
          /\ migrationsCache' = [migrationsCache EXCEPT ![key] = Len(promises) + 1]
          /\ resolvedVersionCache' = resolvedVersionCache \cup {key}
          /\ calls' = Append(calls, [key |-> key, promise |-> Len(promises) + 1])
          /\ UNCHANGED lookups
  /\ UNCHANGED <<planner, parser, resolver, runner, installer>>

At(i, pc) == i \in 1..Len(promises) /\ promises[i].pc = pc

\* the chain of promise i moves on; the caches and the histories stay
Moves(i, pr) ==
  /\ promises' = [promises EXCEPT ![i] = pr]
  /\ UNCHANGED <<migrationsCache, resolvedVersionCache, calls, lookups>>
  /\ UNCHANGED <<planner, parser, resolver, runner, installer>>

\* a slip: setCache is not called for the resolved version
AfterResolveNotCached(i, pr, resolvedVersion) ==
  IF Aliased(migrationsCache, pr.key, resolvedVersion)
  THEN Moves(i, [pr EXCEPT !.pc = "following", !.resolved = resolvedVersion,
                           !.follows = migrationsCache[<<pr.key[1], resolvedVersion>>]])
  ELSE /\ promises' = [promises EXCEPT ![i] = [pr EXCEPT !.pc = "view",
                                                         !.resolved = resolvedVersion]]
       /\ lookups' = [lookups EXCEPT ![<<pr.key[1], resolvedVersion>>] = @ + 1]
       /\ UNCHANGED <<migrationsCache, resolvedVersionCache, calls>>
       /\ UNCHANGED <<planner, parser, resolver, runner, installer>>

\* the second callback of fetchMigrations, the version being resolved: the
\* promise cached under the resolved version is returned, or this promise is
\* cached under it and getPackageMigrationsUsingRegistry is called
AfterResolve(i, pr, resolvedVersion) ==
  IF Aliased(migrationsCache, pr.key, resolvedVersion)
  THEN Moves(i, [pr EXCEPT !.pc = "following", !.resolved = resolvedVersion,
                           !.follows = migrationsCache[<<pr.key[1], resolvedVersion>>]])
  ELSE /\ promises' = [promises EXCEPT ![i] = [pr EXCEPT !.pc = "view",
                                                         !.resolved = resolvedVersion]]
       /\ migrationsCache' = [migrationsCache EXCEPT ![<<pr.key[1], resolvedVersion>>] = i]
       /\ lookups' = [lookups EXCEPT ![<<pr.key[1], resolvedVersion>>] = @ + 1]
       /\ UNCHANGED <<resolvedVersionCache, calls>>
       /\ UNCHANGED <<planner, parser, resolver, runner, installer>>

\* resolvePackageVersionUsingRegistry resolves
VersionResolved(i) ==
  /\ At(i, "resolving")
  /\ AfterResolve(i, promises[i], resolvePackageVersion(promises[i].key[1], promises[i].key[2]))

\* resolvePackageVersionUsingRegistry rejects
VersionRejected(i) ==
  /\ At(i, "resolving")
  /\ Moves(i, Caught(Failed(promises[i], "resolve"), "version not resolved"))

\* getPackageMigrationsUsingRegistry after packageRegistryView: without a
\* migrations file the result is returned, with one
\* downloadPackageMigrationsFromRegistry creates a temporary directory and
\* packs the package
AfterView(i, pr) ==
  IF ViewConfig(pr.key[1]) = "file"
  THEN Moves(i, [pr EXCEPT !.pc = "pack", !.dirs = @ \cup {"download"}])
  ELSE Moves(i, Fulfilled(pr, Manifest(pr.key[1], pr.resolved, "registry", i)))

ViewReturned(i) ==
  /\ At(i, "view")
  /\ AfterView(i, promises[i])

\* packageRegistryView rejects
ViewFailed(i) ==
  /\ At(i, "view")
  /\ Moves(i, Caught(Failed(promises[i], "view"), "view failed"))

\* downloadPackageMigrationsFromRegistry: its catch block throws the error
\* and its finally block awaits cleanup
Thrown(pr, step) ==
  [Failed(pr, step) EXCEPT !.pc = "thrown", !.raised = @ \cup {MigrationsFileMissing}]

\* packageRegistryPack resolves
Packed(i) ==
  /\ At(i, "pack")
  /\ Moves(i, [promises[i] EXCEPT !.pc = "extract"])

\* packageRegistryPack rejects
PackFailed(i) ==
  /\ At(i, "pack")
  /\ Moves(i, Thrown(promises[i], "pack"))

\* extractFileFromTarball resolves and the file is read
Extracted(i) ==
  /\ At(i, "extract")
  /\ Moves(i, [promises[i] EXCEPT !.pc = "cleanup"])

\* extractFileFromTarball rejects, or the file cannot be read
ExtractFailed(i) ==
  /\ At(i, "extract")
  /\ Moves(i, Thrown(promises[i], "extract"))

\* ... after `await cleanup()`: the result is returned, or the error leaves
\* the function and is caught by fetchMigrations
AfterDownload(i, pr, dirs) ==
  IF pr.pc = "cleanup"
  THEN Moves(i, Fulfilled([pr EXCEPT !.dirs = dirs],
                          Manifest(pr.key[1], pr.resolved, "registry", i)))
  ELSE Moves(i, Caught([pr EXCEPT !.dirs = dirs], MigrationsFileMissing))

DownloadCleaned(i) ==
  /\ At(i, "cleanup") \/ At(i, "thrown")
  /\ AfterDownload(i, promises[i],
                   Cleanup(promises[i].dirs, "download", promises[i].pc = "cleanup"))

\* getPackageMigrationsUsingInstall: the package is added and its files read
Added(i) ==
  /\ At(i, "adding")
  /\ Moves(i, [promises[i] EXCEPT !.pc = "installed"])

\* ... adding the package fails, or its migrations file cannot be read
AddFailed(i) ==
  /\ At(i, "adding")
  /\ Moves(i, [promises[i] EXCEPT !.pc = "install failed"])

\* ... after `await cleanup()`: the result is returned, with the version of
\* the installed package, or the error leaves the function and the fetcher
AfterInstall(i, pr, dirs) ==
  IF pr.pc = "installed"
  THEN Moves(i, Fulfilled([pr EXCEPT !.dirs = dirs],
                          Manifest(pr.key[1],
                                   resolvePackageVersion(pr.key[1], pr.key[2]),
                                   "install", i)))
  ELSE Moves(i, Rejected([pr EXCEPT !.dirs = dirs], "install failed"))

InstallCleaned(i) ==
  /\ At(i, "installed") \/ At(i, "install failed")
  /\ AfterInstall(i, promises[i],
                  Cleanup(promises[i].dirs, "install", promises[i].pc = "installed"))

\* the promise that the second callback returned from the cache settles
AfterFollowed(i, pr, other) ==
  IF other.pc = "resolved" THEN Moves(i, Fulfilled(pr, other.res))
  ELSE Moves(i, Caught(Failed(pr, "followed"), other.err))

Followed(i) ==
  /\ At(i, "following")
  /\ Settled(promises[promises[i].follows])
  /\ AfterFollowed(i, promises[i], promises[promises[i].follows])

InitFetcher ==
  /\ run = Len(Runs)
  /\ NewMigrator
  /\ NewFetcher
  /\ NoParser
  /\ NoResolver
  /\ NoRunner
  /\ NoInstaller

\* the fetcher is called, and the registry and the package manager answer,
\* in any order
NextFetcher ==
  \/ \E key \in FetchRequests : CallFetch(key)
  \/ \E i \in 1..Len(promises) : VersionResolved(i)
  \/ \E i \in 1..Len(promises) : VersionRejected(i)
  \/ \E i \in 1..Len(promises) : ViewReturned(i)
  \/ \E i \in 1..Len(promises) : ViewFailed(i)
  \/ \E i \in 1..Len(promises) : Packed(i)
  \/ \E i \in 1..Len(promises) : PackFailed(i)
  \/ \E i \in 1..Len(promises) : Extracted(i)
  \/ \E i \in 1..Len(promises) : ExtractFailed(i)
  \/ \E i \in 1..Len(promises) : DownloadCleaned(i)
  \/ \E i \in 1..Len(promises) : Added(i)
  \/ \E i \in 1..Len(promises) : AddFailed(i)
  \/ \E i \in 1..Len(promises) : InstallCleaned(i)
  \/ \E i \in 1..Len(promises) : Followed(i)

SpecFetcher == InitFetcher /\ [][NextFetcher]_vars

\* ------------------------------------------------------------------------
\* Properties

Finished == status \in {"done", "failed"}
Returned == status = "done"

\* the versions proposed so far for package p, and whether v is their maximum
ProposedFor(p) == {proposals[i][2] : i \in {j \in 1..Len(proposals) : proposals[j][1] = p}}
IsMaxOf(v, vs) == v \in vs /\ \A w \in vs : ~gt(w, v)

StoredIsMax ==
  /\ \A i \in 1..Len(proposals) : Has(packageJsonUpdates, proposals[i][1])
  /\ \A i \in 1..Len(packageJsonUpdates) :
       IsMaxOf(packageJsonUpdates[i].version, ProposedFor(packageJsonUpdates[i].name))

\* within one plan a stored version stays, or is replaced by a greater one
NeverLowered ==
  status' # "init" =>
    \A i \in 1..Len(packageJsonUpdates) :
      /\ Has(packageJsonUpdates', packageJsonUpdates[i].name)
      /\ \/ PlannedVersion(packageJsonUpdates', packageJsonUpdates[i].name)
              = packageJsonUpdates[i].version
         \/ gt(PlannedVersion(packageJsonUpdates', packageJsonUpdates[i].name),
               packageJsonUpdates[i].version)

\* C1: at every moment of a plan, every proposed package is stored, the
\* version stored for a package is the maximum (normalized comparison) of the
\* versions proposed for it so far, and a stored version is only ever
\* replaced by a strictly greater one.
C1_UpgradeOnly == []StoredIsMax /\ [][NeverLowered]_vars

\* a plan has returned in which a package was proposed at a lower version
\* after a higher one
C1_LowerAfterHigher ==
  /\ Returned
  /\ \E i \in 1..Len(proposals) : \E j \in (i + 1)..Len(proposals) :
       proposals[i][1] = proposals[j][1] /\ gt(proposals[i][2], proposals[j][2])

\* C2: every run of updatePackageJson ends (it returns or it rejects), under
\* every order of fetch completion and of resumption, also when packages
\* propose each other.
C2_Terminates == <>[]Finished

\* a plan has returned in which the root was proposed again by a package it
\* led to, and that traversal was pruned
C2_MutualReference ==
  /\ Returned
  /\ \E t \in 1..Len(tasks) : tasks[t].pruned /\ tasks[t].pkg = Sc.root

\* a version satisfies a range
InRange(v, r) == v # Null /\ Valid(v) /\ Compare(v, r.lo) >= 0 /\ Compare(v, r.hi) = -1

\* a requirement holds of the installed versions and a plan
MetBy(plan, ov, req) ==
  \/ InRange(getPkgVersion(ov, req.pkg), req.range)
  \/ InRange(PlannedVersion(plan, req.pkg), req.range)

MetInFinalPlan(requires) ==
  \A i \in 1..Len(requires) : MetBy(packageJsonUpdates, overrides, requires[i])

\* a requirement held when the entry was walked: of the installed versions,
\* of the plan as it was, or of a package merged from an earlier entry of the
\* same group
MetByEarlier(extra, req) ==
  /\ Has(extra, req.pkg)
  /\ InRange(cleanSemver(extra[IndexOf(extra, req.pkg)].version), req.range)

MetWhenWalked(a) ==
  \A i \in 1..Len(a.entry.requires) :
    MetBy(a.plan, a.ov, a.entry.requires[i]) \/ MetByEarlier(a.extra, a.entry.requires[i])

GeneratorsMetInFinalPlan ==
  \A k \in 1..Len(migrations) : MetInFinalPlan(migrations[k].requires)

\* C3 as stated: when updatePackageJson has returned, the requires of every
\* merged update entry and of every emitted generator hold of the final plan
\* state (installed versions and final packageJsonUpdates).
C3_RequiresMetInFinalPlan ==
  Returned =>
    /\ \A a \in accepted : MetInFinalPlan(a.entry.requires)
    /\ GeneratorsMetInFinalPlan

\* C3 amended: the requires of every emitted generator hold of the final
\* plan state; the requires of every merged update entry held when the entry
\* was walked, of the installed versions, the plan at that moment or the
\* packages merged from earlier entries of its group.
C3_RequiresMetWhenJudged ==
  /\ \A a \in accepted : MetWhenWalked(a)
  /\ Returned => GeneratorsMetInFinalPlan

\* a plan has returned with a merged entry whose requires no longer hold of
\* the final plan, and with an emitted generator that has requires
C3_MovedOutOfRange ==
  /\ Returned
  /\ \E a \in accepted : ~MetInFinalPlan(a.entry.requires)
  /\ \E k \in 1..Len(migrations) : migrations[k].requires # <<>>

InVersionWindow(m) ==
  /\ gt(m.version, getPkgVersion(overrides, m.package))
  /\ lte(m.version, PlannedVersion(packageJsonUpdates, m.package))

\* C4: every generator in the returned migration list belongs to a planned
\* package p and has installed(p) < version <= planned(p).version under
\* normalized comparison.
C4_RangeDiscipline ==
  Returned =>
    \A k \in 1..Len(migrations) :
      Has(packageJsonUpdates, migrations[k].package) /\ InVersionWindow(migrations[k])

Declared(i) ==
  fetchResult(packageJsonUpdates[i].name, packageJsonUpdates[i].version).generators

\* a plan has returned with generators emitted, while a planned package
\* declares a generator at or below its installed version and one above its
\* planned version
C4_OutOfWindowLeftOut ==
  /\ Returned
  /\ migrations # <<>>
  /\ \E i \in 1..Len(packageJsonUpdates) :
       /\ getPkgVersion(overrides, packageJsonUpdates[i].name) # Null
       /\ \E k \in 1..Len(Declared(i)) :
            /\ Declared(i)[k].version # Null
            /\ gt(Declared(i)[k].version, packageJsonUpdates[i].version)
       /\ \E k \in 1..Len(Declared(i)) :
            /\ Declared(i)[k].version # Null
            /\ lte(Declared(i)[k].version,
                   getPkgVersion(overrides, packageJsonUpdates[i].name))

\* the plan as a map: its entries without the key order
PlanMap(plan) == Range(plan)

\* C5: a run of the command on the inputs of an earlier run, without prompts,
\* returns the same plan and the same migration list, in the same order,
\* whatever the order in which the fetch calls complete.
C5_SameResultAgain ==
  (Returned /\ previous.returned /\ ~interactive) =>
    /\ PlanMap(packageJsonUpdates) = PlanMap(previous.packageJson)
    /\ migrations = previous.migrations

\* the packageGroupOrder of the root target: that of the first populate call
RootGroupOrder ==
  IF Len(tasks) >= 2 /\ tasks[2].kind = "populate" THEN tasks[2].order ELSE <<>>

InRootGroup(pkg) == OrderIndex(RootGroupOrder, pkg) >= 0

\* the position of generator name in the manifest of package pkg
DeclaredIndex(pkg, name) ==
  CHOOSE k \in 1..Len(Sc.man[pkg].generators) : Sc.man[pkg].generators[k].name = name

\* migration a, which precedes migration b in the list, may precede it
InClaimedOrder(a, b) ==
  IF a.package = b.package
  THEN DeclaredIndex(a.package, a.name) < DeclaredIndex(b.package, b.name)
  ELSE /\ IndexOf(packageJsonUpdates, a.package) < IndexOf(packageJsonUpdates, b.package)
       /\ (InRootGroup(a.package) /\ InRootGroup(b.package)) =>
            OrderIndex(RootGroupOrder, a.package) <= OrderIndex(RootGroupOrder, b.package)

\* C6: in the returned migration list the packages appear in plan-insertion
\* order, two packages of the root's package group appear in the order of
\* that group, and the generators of one package keep their declared order.
C6_GroupOrder ==
  Returned =>
    \A i \in 1..Len(migrations) : \A j \in (i + 1)..Len(migrations) :
      InClaimedOrder(migrations[i], migrations[j])

NoExpansionTwice ==
  \A i \in 1..Len(expansions) : \A j \in (i + 1)..Len(expansions) :
    expansions[i] # expansions[j]

\* collectedVersions[p] is the highest version p was expanded at
CollectedIsHighest ==
  \A i \in 1..Len(expansions) :
    /\ collectedVersions[expansions[i][1]] # Null
    /\ Compare(collectedVersions[expansions[i][1]], expansions[i][2]) >= 0

CollectedOnlyGrows ==
  status' # "init" =>
    \A p \in Packages :
      collectedVersions[p] # Null =>
        \/ collectedVersions'[p] = collectedVersions[p]
        \/ /\ collectedVersions'[p] # Null
           /\ Compare(collectedVersions'[p], collectedVersions[p]) = 1

\* the populate call t resumes after its fetch with a resolved version that
\* collectedVersions already covers
ResumesCovered(t) ==
  /\ tasks[t].kind = "populate"
  /\ tasks[t].pc = "fetch"
  /\ tasks'[t].pc # "fetch"
  /\ collectedVersions[tasks[t].pkg] # Null
  /\ Compare(collectedVersions[tasks[t].pkg],
             resolvePackageVersion(tasks[t].key[1], tasks[t].key[2])) >= 0

\* ... then it returns [] and nothing else happens
CoveredIsQuiet ==
  \A t \in 1..Len(tasks) :
    ResumesCovered(t) =>
      /\ tasks'[t].pc = "done"
      /\ tasks'[t].res = <<>>
      /\ tasks'[t].kids = <<>>
      /\ Len(tasks') = Len(tasks)
      /\ UNCHANGED <<packageJsonUpdates, collectedVersions, overrides, proposals, expansions>>

\* C7: a traversal of p whose resolved version is at most collectedVersions[p]
\* returns no packages to check and records and expands nothing;
\* collectedVersions[p] only grows; no (package, resolved version) is expanded
\* twice.
C7_Pruning == [](NoExpansionTwice /\ CollectedIsHighest) /\ [][CollectedOnlyGrows /\ CoveredIsQuiet]_vars

\* a plan has returned in which a traversal was pruned at the very version
\* the package had been expanded at
C7_PrunedAtSameVersion ==
  /\ Returned
  /\ \E t \in 1..Len(tasks) :
       /\ tasks[t].pruned
       /\ \E i \in 1..Len(expansions) :
            expansions[i] = <<tasks[t].pkg,
                              resolvePackageVersion(tasks[t].key[1], tasks[t].key[2])>>

\* C8: a group member with version '*', or a bare name in a list group, of a
\* group normalized while its parent had an override, has an override: the
\* parent's when it had none before, else the one it had.
C8_StarPropagation ==
  \A r \in normalized :
    overrides[r.member] = (IF r.before = Null THEN r.inherited ELSE r.before)

\* a plan has returned in which one member inherited the parent's override
\* and another kept its own, different one
C8_InheritedAndKept ==
  /\ Returned
  /\ \E r \in normalized : r.before = Null /\ r.member # r.parent
  /\ \E r \in normalized : r.before # Null /\ r.before # r.inherited

\* C9: for a package with to[p] set, the version fetched is to[p], and the
\* version recorded in the plan is to[p] or what to[p] resolved to, also when
\* the package is not installed.
C9_PinsApply ==
  /\ \A t \in 1..Len(tasks) :
       (tasks[t].kind = "populate" /\ to[tasks[t].pkg] # Null) =>
         tasks[t].key[2] = to[tasks[t].pkg]
  /\ \A i \in 1..Len(packageJsonUpdates) :
       to[packageJsonUpdates[i].name] # Null =>
         packageJsonUpdates[i].version \in
           {to[packageJsonUpdates[i].name],
            resolvePackageVersion(packageJsonUpdates[i].name, to[packageJsonUpdates[i].name])}

\* some kept entry of some manifest proposes package name at version
FromKeptEntry(name, version) ==
  \E c \in contributed : \E k \in 1..Len(c.packages) :
    c.packages[k].name = name /\ c.packages[k].version = version

\* the populate call t is the one of the root target: the first call the root
\* buildPackageJsonUpdates call (task 1) makes
IsRootCall(t) == t = 2

\* C10: an entry of p's manifest is kept only if it has a packages map and
\* installed(p) < entry.version <= resolved target of p (normalized); every
\* traversal but the root's, and every planned version that is not the
\* resolved version of its package, comes from a kept entry; and in the
\* example (a at 1.0.0 moved to 2.0.0, an entry at 1.5 moving b to 0.3.0) the
\* plan has a at 2.0.0 and b at 0.3.0.
C10_EntryWindow ==
  /\ \A c \in contributed :
       c.hasPackages /\ gt(c.version, c.installed) /\ lte(c.version, c.target)
  /\ \A t \in 1..Len(tasks) :
       (tasks[t].kind = "populate" /\ ~IsRootCall(t)) =>
         FromKeptEntry(tasks[t].pkg, tasks[t].target.version)
  /\ \A i \in 1..Len(packageJsonUpdates) :
       \/ packageJsonUpdates[i].name = Sc.root
       \/ \E e \in 1..Len(expansions) :
            expansions[e] = <<packageJsonUpdates[i].name, packageJsonUpdates[i].version>>
       \/ FromKeptEntry(packageJsonUpdates[i].name, packageJsonUpdates[i].version)
  /\ (Returned /\ run = 1) =>
       /\ PlannedVersion(packageJsonUpdates, "a") = Ver(2, 0, 0)
       /\ PlannedVersion(packageJsonUpdates, "b") = Ver(0, 3, 0)

\* the example's plan has returned: a's manifest has entries at or below the
\* installed version, above the target and without packages, and one was kept
C10_Example ==
  /\ Returned
  /\ run = 1
  /\ \E c \in contributed : c.package = "a" /\ c.version = Short2(1, 5)
  /\ \E k \in 1..Len(Sc.man["a"].packageJsonUpdates) :
       lte(Sc.man["a"].packageJsonUpdates[k].version, Sc.installed["a"])
  /\ \E k \in 1..Len(Sc.man["a"].packageJsonUpdates) :
       gt(Sc.man["a"].packageJsonUpdates[k].version, Sc.rootVersion)
  /\ \E k \in 1..Len(Sc.man["a"].packageJsonUpdates) :
       ~Sc.man["a"].packageJsonUpdates[k].hasPackages

\* the entry of `given` a kept entry comes from: the same but for its packages
SameEntry(e, k) ==
  e.version = k.version /\ e.requires = k.requires /\ e.xprompt = k.xprompt /\ e.hasPackages

\* the package u of a given entry is being added, or the root manifest lists it
AddedOrListed(u) ==
  \/ u.alwaysAddToPackageJson
  \/ u.addToPackageJson # NoAdd
  \/ Sc.dependencies[u.name] # Null
  \/ Sc.devDependencies[u.name] # Null

\* the conditions under which the call f may keep the package u
MayRetain(f, u) ==
  /\ AddedOrListed(u)
  /\ (u.ifPackageInstalled # "" => getInstalledPackageVersion(u.ifPackageInstalled, f.ov) # Null)
  /\ (f.coll[u.name] # Null =>
        Compare(normalizeVersion(u.version), normalizeVersion(f.coll[u.name])) = 1)

\* C11: every package of an entry filterPackageJsonUpdates returned (the
\* package group's entry included) is a package of the entry as it was given
\* that is flagged alwaysAddToPackageJson / addToPackageJson or is listed in
\* the root manifest's dependencies or devDependencies, whose
\* ifPackageInstalled package, when given, is installed, and whose version is
\* greater than the collected version of the package, when there is one.
C11_RetainedOnlyIf ==
  \A f \in retained :
    \A i \in 1..Len(f.kept) :
      \A j \in 1..Len(f.kept[i].packages) :
        \E g \in 1..Len(f.given) :
          /\ SameEntry(f.given[g], f.kept[i])
          /\ \E h \in 1..Len(f.given[g].packages) :
               /\ f.given[g].packages[h].name = f.kept[i].packages[j].name
               /\ f.given[g].packages[h].version = f.kept[i].packages[j].version
               /\ MayRetain(f, f.given[g].packages[h])

\* a call returned an entry from which it kept a package that is only listed
\* in the root manifest and dropped one that is neither listed nor added
C11_ListedKeptUnlistedDropped ==
  /\ status = "done"
  /\ \E f \in retained :
       \E i \in 1..Len(f.kept), g \in 1..Len(f.given) :
         /\ SameEntry(f.given[g], f.kept[i])
         /\ \E h \in 1..Len(f.given[g].packages) :
              /\ ~AddedOrListed(f.given[g].packages[h])
              /\ ~Has(f.kept[i].packages, f.given[g].packages[h].name)
         /\ \E j \in 1..Len(f.kept[i].packages) :
              /\ f.kept[i].packages[j].addToPackageJson = NoAdd
              /\ Sc.devDependencies[f.kept[i].packages[j].name] # Null

\* the command has ended after the manifest writer ran
Written == files.outcome # "none"

\* the planned packages that are not installed and recorded with
\* addToPackageJson: false
NotInstalledNotAdded ==
  {i \in 1..Len(packageJsonUpdates) :
     /\ getInstalledPackageVersion(packageJsonUpdates[i].name, overrides) = Null
     /\ packageJsonUpdates[i].addToPackageJson = NoAdd}

Listed(q) == Sc.dependencies[q] # Null \/ Sc.devDependencies[q] # Null

\* the root manifest's entries for q are the ones it had before the command
LeftAlone(q) ==
  /\ files.dependencies[q] = Sc.dependencies[q]
  /\ files.devDependencies[q] = Sc.devDependencies[q]

\* the entry for q of the first section that listed it (devDependencies, then
\* dependencies) is `version`, and its other entry is as before
Rewritten(q, version) ==
  IF Sc.devDependencies[q] # Null
  THEN files.devDependencies[q] = version /\ files.dependencies[q] = Sc.dependencies[q]
  ELSE files.dependencies[q] = version /\ files.devDependencies[q] = Null

Inserted(u) ==
  /\ u.addToPackageJson = "dependencies" =>
       files.dependencies[u.name] = u.version /\ files.devDependencies[u.name] = Null
  /\ u.addToPackageJson = "devDependencies" =>
       files.devDependencies[u.name] = u.version /\ files.dependencies[u.name] = Null
  /\ u.addToPackageJson = NoAdd => LeftAlone(u.name)

NotPlannedLeftAlone ==
  \A q \in Packages : ~Has(packageJsonUpdates, q) => LeftAlone(q)

\* C13 as stated: once the manifest writer has run, each section that listed
\* a planned package holds its planned version, a planned package that no
\* section listed is in the section addToPackageJson names, and the entries
\* of the other packages are as before.
C13_EachListedSection ==
  Written =>
    /\ \A i \in 1..Len(packageJsonUpdates) :
         /\ Sc.dependencies[packageJsonUpdates[i].name] # Null =>
              files.dependencies[packageJsonUpdates[i].name] = packageJsonUpdates[i].version
         /\ Sc.devDependencies[packageJsonUpdates[i].name] # Null =>
              files.devDependencies[packageJsonUpdates[i].name] = packageJsonUpdates[i].version
         /\ ~Listed(packageJsonUpdates[i].name) => Inserted(packageJsonUpdates[i])
    /\ NotPlannedLeftAlone

\* C13, amended: once the manifest writer has run, a planned package that
\* devDependencies listed has its planned version there and its dependencies
\* entry as before; one that only dependencies listed has its planned version
\* there; one that no section listed is in the section addToPackageJson
\* names, when it names one; the entries of the other packages are as before.
C13_FirstListedSection ==
  Written =>
    /\ \A i \in 1..Len(packageJsonUpdates) :
         IF Listed(packageJsonUpdates[i].name)
         THEN Rewritten(packageJsonUpdates[i].name, packageJsonUpdates[i].version)
         ELSE Inserted(packageJsonUpdates[i])
    /\ NotPlannedLeftAlone

\* the writer ran on a plan with a package that both sections listed, at a
\* version other than the listed one: devDependencies has the planned version
\* and dependencies the old one
C13_ListedInBoth ==
  /\ Written
  /\ \E i \in 1..Len(packageJsonUpdates) :
       /\ Sc.dependencies[packageJsonUpdates[i].name] # Null
       /\ Sc.devDependencies[packageJsonUpdates[i].name] # Null
       /\ files.devDependencies[packageJsonUpdates[i].name] = packageJsonUpdates[i].version
       /\ files.dependencies[packageJsonUpdates[i].name] # packageJsonUpdates[i].version

\* C14: once the command has ended after planning, migrations.json exists if
\* and only if the planner's migration list is not empty.
C14_MigrationsFileIffMigrations ==
  Written => (files.hasMigrationsJson <=> migrations # <<>>)

\* ------------------------------------------------------------------------
\* The options parser (parseMigrationsOptions).  A text is the sequence of
\* its tokens: an '@', a name without '@', or a version-like word without
\* '@'.  White space is left out.

AtSign == [kind |-> "@", name |-> <<>>, back |-> FALSE, v |-> Null]

\* a name: its segments, joined by '/' or (back) by '\'; read as a version
\* it is one non-numeric word
Word(name, back) ==
  [kind |-> "word", name |-> name, back |-> back, v |-> Short1(TagWord)]

\* a version-like word
Num(v) == [kind |-> "version", name |-> <<>>, back |-> FALSE, v |-> v]

TextNx == <<Word(<<"nx">>, FALSE)>>
TextNrwlWorkspace == <<AtSign, Word(<<"nrwl", "workspace">>, FALSE)>>

\* the text after an '@' read as a version string
AsVersion(text) == IF Len(text) = 1 THEN text[1].v ELSE Short1(TagWord)

\* packageName.replace(/\\/g, '/')
normalizeSlashes(packageName) ==
  [i \in 1..Len(packageName) |-> [packageName[i] EXCEPT !.back = FALSE]]

\* text.lastIndexOf('@'), counted in tokens from 1; 0 when there is none
LastAt(text) ==
  IF \E i \in 1..Len(text) : text[i] = AtSign
  THEN CHOOSE i \in 1..Len(text) :
         text[i] = AtSign /\ \A j \in (i + 1)..Len(text) : text[j] # AtSign
  ELSE 0

Before(text, i) == SubSeq(text, 1, i - 1)
After(text, i) == SubSeq(text, i + 1, Len(text))

Threw(message) == [type |-> "error", message |-> message]

ProvidePackage == "Provide the correct package name and version. E.g., my-package@9.0.0."
IncorrectFrom == "Incorrect 'from' section. Use --from=\"package@version\""
IncorrectTo == "Incorrect 'to' section. Use --to=\"package@version\""

\* the regular expression ^\d+(?:\.\d+)?(?:\.\d+)?$ : one to three numeric
\* parts and nothing else
Shorthand(v) ==
  /\ v.pre = 0
  /\ Len(v.p) \in 1..3
  /\ \A i \in 1..Len(v.p) : v.p[i] >= 0

\* args === 'latest' || args === 'next' || valid(args) || args.match(...)
BareVersion(args) ==
  /\ Len(args) = 1
  /\ args[1].kind = "version"
  /\ IsTag(args[1].v) \/ Valid(args[1].v) \/ Shorthand(args[1].v)

TargetOf(targetPackage, targetVersion) ==
  [type |-> "target", targetPackage |-> targetPackage, targetVersion |-> targetVersion]

\* a slip: the boundary is the release 14.0.0
LegacyTargetBelowRelease(version, targetVersion) ==
  ~IsTag(version) /\ semverLt(targetVersion, Ver(14, 0, 0))

\* !['latest', 'next'].includes(args) && lt(targetVersion, '14.0.0-beta.0')
LegacyTarget(version, targetVersion) ==
  ~IsTag(version) /\ semverLt(targetVersion, LegacyBoundary)

\* the branch of parseTargetPackageAndVersion for a bare version
TargetOfVersion(version, targetVersion) ==
  TargetOf(IF LegacyTarget(version, targetVersion) THEN TextNrwlWorkspace ELSE TextNx,
           targetVersion)

\* the branch of parseTargetPackageAndVersion for a text with an '@', the
\* last one at i
TargetOfPair(args, i) ==
  IF i = 1 THEN TargetOf(args, LATEST)
  ELSE IF After(args, i) = <<>> THEN Threw(ProvidePackage)
  ELSE TargetOf(Before(args, i), normalizeVersionWithTagCheck(AsVersion(After(args, i))))

parseTargetPackageAndVersion(args) ==
  IF args = <<>> THEN Threw(ProvidePackage)
  ELSE IF LastAt(args) > 0 THEN TargetOfPair(args, LastAt(args))
  ELSE IF BareVersion(args)
       THEN TargetOfVersion(args[1].v, normalizeVersionWithTagCheck(args[1].v))
  ELSE TargetOf(args, LATEST)

\* split === -1 || split === 0, or an empty package or version
BadOverride(text) == LastAt(text) <= 1 \/ After(text, LastAt(text)) = <<>>

\* res[name] = version on an object whose keys keep their insertion order
SetKey(res, name, version) ==
  IF \E i \in 1..Len(res) : res[i].name = name
  THEN [i \in 1..Len(res) |->
          IF res[i].name = name THEN [name |-> name, version |-> version] ELSE res[i]]
  ELSE Append(res, [name |-> name, version |-> version])

RECURSIVE OverridesOf(_, _)
OverridesOf(items, res) ==
  IF items = <<>> THEN res
  ELSE OverridesOf(Tail(items),
         SetKey(res,
                normalizeSlashes(Before(Head(items), LastAt(Head(items)))),
                normalizeVersionWithTagCheck(AsVersion(After(Head(items),
                                                             LastAt(Head(items)))))))

\* versionOverrides(overrides, param) on the items between the commas: the
\* map, or the error of the first bad item
versionOverrides(items, message) ==
  IF \E i \in 1..Len(items) : BadOverride(items[i]) THEN Threw(message)
  ELSE [type |-> "map", map |-> OverridesOf(items, <<>>)]

\* options.from ? versionOverrides(options.from, 'from') : {}
OverridesOption(items, message) ==
  IF items = <<>> THEN [type |-> "map", map |-> <<>>]
  ELSE versionOverrides(items, message)

\* the JavaScript values of options.runMigrations: the key is absent, or its
\* value is something other than a string (undefined, false: falsy), or a
\* string
KeyAbsent == [present |-> FALSE, string |-> FALSE, text |-> ""]
NotAString == [present |-> TRUE, string |-> FALSE, text |-> ""]
String(text) == [present |-> TRUE, string |-> TRUE, text |-> text]

\* if (options.runMigrations === '') options.runMigrations = 'migrations.json'
Defaulted(runMigrations) ==
  IF runMigrations = String("") THEN String("migrations.json") ELSE runMigrations

\* a slip: the branch is taken on the presence of the key
RunsMigrationsIfPresent(runMigrations) == runMigrations.present

\* the else branch of `if (!options.runMigrations)`
RunsMigrations(runMigrations) == runMigrations.string /\ runMigrations.text # ""

\* the generateMigrations branch, its three calls made in order: the first
\* that throws ends it
Generate(fromMap, toMap, target, isInteractive) ==
  IF fromMap.type = "error" THEN fromMap
  ELSE IF toMap.type = "error" THEN toMap
  ELSE IF target.type = "error" THEN target
  ELSE [type |-> "generateMigrations",
        targetPackage |-> normalizeSlashes(target.targetPackage),
        targetVersion |-> target.targetVersion,
        from |-> fromMap.map, to |-> toMap.map, interactive |-> isInteractive]

Branch(o, runMigrations) ==
  IF RunsMigrations(runMigrations)
  THEN [type |-> "runMigrations", runMigrations |-> runMigrations.text]
  ELSE Generate(OverridesOption(o.from, IncorrectFrom),
                OverridesOption(o.to, IncorrectTo),
                parseTargetPackageAndVersion(o.packageAndVersion),
                o.interactive)

parseMigrationsOptions(o) == Branch(o, Defaulted(o.runMigrations))

\* the texts given as packageAndVersion ('' and a missing one are <<>>)
BareVersions ==
  {LATEST, NEXT, Ver(13, 9, 0), Ver(16, 0, 0), Ver(14, 0, 0), PreVer(14, 0, 0, 1),
   PreVer(14, 0, 0, 2), PreVer(13, 9, 0, 2), Short1(13), Short1(14), Short2(13, 9),
   Short2(14, 1), Short1(0), [p |-> <<14, 0>>, pre |-> 1], STAR}

PackageTexts ==
  {<<>>, TextNx, TextNrwlWorkspace,
   TextNrwlWorkspace \o <<AtSign, Num(Ver(13, 9, 0))>>,
   TextNx \o <<AtSign, Num(Short1(16))>>,
   TextNx \o <<AtSign>>,
   <<AtSign, Word(<<"nrwl", "workspace">>, TRUE), AtSign, Num(LATEST)>>}

OverrideTexts ==
  {<<>>,
   <<TextNx \o <<AtSign, Num(Short2(15, 1))>>>>,
   <<TextNx \o <<AtSign, Num(Ver(15, 0, 0))>>,
     <<AtSign, Word(<<"nrwl", "jest">>, TRUE), AtSign, Num(NEXT)>>,
     TextNx \o <<AtSign, Num(Ver(15, 2, 0))>>>>,
   <<TextNx>>}

RunMigrationsValues ==
  {KeyAbsent, NotAString, String(""), String("migrations.json"), String("other.json")}

OptionsGiven ==
  [given : {TRUE},
   packageAndVersion : PackageTexts \cup {<<Num(v)>> : v \in BareVersions},
   runMigrations : RunMigrationsValues,
   from : OverrideTexts,
   to : OverrideTexts,
   interactive : BOOLEAN]

InitParser ==
  /\ run = Len(Runs)
  /\ NewMigrator
  /\ NewFetcher
  /\ options \in OptionsGiven
  /\ parsed = NotParsed
  /\ NoResolver
  /\ NoRunner
  /\ NoInstaller

\* the call of parseMigrationsOptions; it assigns the default path to
\* options.runMigrations
Parse ==
  /\ parsed = NotParsed
  /\ parsed' = parseMigrationsOptions(options)
  /\ options' = [options EXCEPT !.runMigrations = Defaulted(@)]
  /\ UNCHANGED <<planner, fetcher, resolver, runner, installer>>

NextParser == Parse

SpecParser == InitParser /\ [][NextParser]_vars

\* ------------------------------------------------------------------------
\* The installed-version resolver with its cache
\* (createInstalledPackageVersionsResolver).  The modules under root are
\* outside the program: one may be installed, removed or replaced between
\* two calls.

ModuleVersions == {Ver(1, 0, 0), Ver(2, 0, 0)}
OverrideVersion == Ver(3, 0, 0)

Answer(result, newCache, read) == [result |-> result, cache |-> newCache, read |-> read]

\* a slip: the cached version is looked at before the override
UsesOverrideUnlessCached(ov, cached, packageName) ==
  ov[packageName] # Null /\ cached[packageName] = Null

\* if (overrides[packageName])
UsesOverride(ov, cached, packageName) == ov[packageName] # Null

\* a slip: the version read is not kept
CachedNever(cached, packageName, version) == cached

\* cache[packageName] = packageJson.version
Cached(cached, packageName, version) == [cached EXCEPT ![packageName] = version]

\* getInstalledPackageVersion(packageName, overrides) of the resolver: the
\* result, the cache after the call, and the names whose manifest was read.
\* readModulePackageJson throws for a module that is not installed.
RECURSIVE InstalledPackageVersion(_, _, _, _)
InstalledPackageVersion(cached, installed, packageName, ov) ==
  IF UsesOverride(ov, cached, packageName)
  THEN Answer(ov[packageName], cached, {})
  ELSE IF cached[packageName] # Null
  THEN Answer(cached[packageName], cached, {})
  ELSE IF installed[packageName] # Null
  THEN Answer(installed[packageName],
                Cached(cached, packageName, installed[packageName]),
                {packageName})
  ELSE IF packageName = "nx"
  THEN InstalledPackageVersion(cached, installed, "@nrwl/workspace", ov)
  ELSE Answer(Null, cached, {})

\* the call and its record
Answered(packageName, ov, r) ==
  /\ cache' = r.cache
  /\ asked' = [called |-> TRUE, packageName |-> packageName, overrides |-> ov,
               result |-> r.result]
  /\ first' = [n \in ResolverNames |->
                 IF n \in r.read /\ first[n] = Null THEN modules[n] ELSE first[n]]
  /\ UNCHANGED modules
  /\ UNCHANGED <<planner, fetcher, parser, runner, installer>>

CallResolver(packageName, ov) ==
  Answered(packageName, ov, InstalledPackageVersion(cache, modules, packageName, ov))

\* a module is installed, removed or replaced
ModuleChanged(packageName, version) ==
  /\ modules[packageName] # version
  /\ modules' = [modules EXCEPT ![packageName] = version]
  /\ UNCHANGED <<cache, asked, first>>
  /\ UNCHANGED <<planner, fetcher, parser, runner, installer>>

InitResolver ==
  /\ run = Len(Runs)
  /\ NewMigrator
  /\ NewFetcher
  /\ NoParser
  /\ cache = NoVersions
  /\ modules \in [ResolverNames -> ModuleVersions \cup {Null}]
  /\ asked = NotAsked
  /\ first = NoVersions
  /\ NoRunner
  /\ NoInstaller

NextResolver ==
  \/ \E packageName \in ResolverNames, ov \in [ResolverNames -> {Null, OverrideVersion}] :
       CallResolver(packageName, ov)
  \/ \E packageName \in ResolverNames, version \in ModuleVersions \cup {Null} :
       ModuleChanged(packageName, version)

SpecResolver == InitResolver /\ [][NextResolver]_vars

\* ------------------------------------------------------------------------
\* The migration runner (executeMigrations).  What a migration does to the
\* workspace, and whether git and the package manager succeed, is outside
\* the program.

MaxMigrations == 3

\* [dependencies, devDependencies] of <root>/package.json, each an ordered
\* map; a migration may leave them, reorder them or change a version
DepsAsPlanned == <<<<[name |-> "a", version |-> Ver(1, 0, 0)],
                     [name |-> "b", version |-> Ver(1, 0, 0)]>>, <<>>>>
DepsReordered == <<<<[name |-> "b", version |-> Ver(1, 0, 0)],
                     [name |-> "a", version |-> Ver(1, 0, 0)]>>, <<>>>>
DepsUpdated == <<<<[name |-> "a", version |-> Ver(2, 0, 0)],
                   [name |-> "b", version |-> Ver(1, 0, 0)]>>, <<>>>>
DepsValues == {DepsAsPlanned, DepsReordered, DepsUpdated}

\* JSON.stringify of an object: its members in key order
StringifiedObject(map) == [i \in 1..Len(map) |-> <<map[i].name, map[i].version>>]

\* getStringifiedPackageJsonDeps: JSON.stringify([dependencies, devDependencies])
getStringifiedPackageJsonDeps(deps) ==
  <<StringifiedObject(deps[1]), StringifiedObject(deps[2])>>

\* the migrations of migrations.json: the k-th is named k
MigrationLists ==
  UNION {[1..n -> [name : {0}, cli : {"nx", "angular"}]] : n \in 0..MaxMigrations}

Named(list) == [k \in 1..Len(list) |-> [list[k] EXCEPT !.name = k]]

\* executeMigrations is called: the snapshot is taken before the loop
Called(list, shouldCreateCommits, deps) ==
  [pc |-> "loop", migrations |-> list, shouldCreateCommits |-> shouldCreateCommits,
   i |-> 1, depsBeforeMigrations |-> getStringifiedPackageJsonDeps(deps),
   migrationsWithNoChanges |-> <<>>, error |-> 0]

Untouched(deps) ==
  [deps |-> deps, ran |-> <<>>, commits |-> <<>>, installs |-> 0, installedAfter |-> 0]

\* the function that runs a migration: runNxMigration for cli 'nx', else
\* ngCliAdapter.runMigration
RunnerOf(m) == IF m.cli = "nx" THEN "runNxMigration" ELSE "ngCliAdapter.runMigration"

\* the workspace after migration m was run, with what came of it
Ran(w, m, outcome) ==
  [w EXCEPT !.ran = Append(@, [name |-> m.name, by |-> RunnerOf(m), outcome |-> outcome])]

InLoop == exec.pc = "loop" /\ exec.i <= Len(exec.migrations)

\* the next turn of `for (const m of migrations)`
Continue(e) == [e EXCEPT !.i = @ + 1]

\* a slip: a migration that made no changes is not recorded
PushedNever(e, m) == e

\* migrationsWithNoChanges.push(m)
Pushed(e, m) == [e EXCEPT !.migrationsWithNoChanges = Append(@, m)]

\* a slip: the failure is logged and the loop goes on
RethrownNot(e, m) == Continue(e)

\* the outer catch: `throw e` ends executeMigrations
Rethrown(e, m) == [e EXCEPT !.pc = "threw", !.error = m.name]

\* a slip: a failed commit ends executeMigrations
CommitFailureThrown(e, m) == [e EXCEPT !.pc = "threw", !.error = m.name]

\* the inner catch around commitChanges: the message is logged
CommitFailureLogged(e, m) == e

\* the migration made no changes: it is recorded, and `continue`
MigrationNoChanges ==
  /\ InLoop
  /\ exec' = Continue(Pushed(exec, exec.migrations[exec.i]))
  /\ workspace' = Ran(workspace, exec.migrations[exec.i], "no changes")
  /\ UNCHANGED <<planner, fetcher, parser, resolver, installer>>

\* the migration made changes, to the manifest's dependencies as well or
\* not, and no commit is asked for
MigrationChanged(deps) ==
  /\ InLoop
  /\ ~exec.shouldCreateCommits
  /\ exec' = Continue(exec)
  /\ workspace' = [Ran(workspace, exec.migrations[exec.i], "changes") EXCEPT !.deps = deps]
  /\ UNCHANGED <<planner, fetcher, parser, resolver, installer>>

\* ... and commitChanges returns the sha of the commit, or null
MigrationCommitted(deps, sha) ==
  /\ InLoop
  /\ exec.shouldCreateCommits
  /\ exec' = Continue(exec)
  /\ workspace' = [Ran(workspace, exec.migrations[exec.i], "changes") EXCEPT
                     !.deps = deps,
                     !.commits = Append(@, [name |-> exec.migrations[exec.i].name,
                                            sha |-> sha])]
  /\ UNCHANGED <<planner, fetcher, parser, resolver, installer>>

\* ... and commitChanges throws: git add or git commit failed
MigrationNotCommitted(deps) ==
  /\ InLoop
  /\ exec.shouldCreateCommits
  /\ exec' = Continue(CommitFailureLogged(exec, exec.migrations[exec.i]))
  /\ workspace' = [Ran(workspace, exec.migrations[exec.i], "commit failed") EXCEPT
                     !.deps = deps]
  /\ UNCHANGED <<planner, fetcher, parser, resolver, installer>>

\* the migration throws
MigrationThrew ==
  /\ InLoop
  /\ exec' = Rethrown(exec, exec.migrations[exec.i])
  /\ workspace' = Ran(workspace, exec.migrations[exec.i], "threw")
  /\ UNCHANGED <<planner, fetcher, parser, resolver, installer>>

AfterLoop == exec.pc = "loop" /\ exec.i > Len(exec.migrations)

\* a slip: the dependencies are compared as sets of entries
DepsDifferUnordered(before, after) ==
  \E s \in 1..2 : {before[s][k] : k \in 1..Len(before[s])} #
                   {after[s][k] : k \in 1..Len(after[s])}

\* depsBeforeMigrations !== depsAfterMigrations
DepsDiffer(before, after) == before # after

NeedsInstall == DepsDiffer(exec.depsBeforeMigrations,
                           getStringifiedPackageJsonDeps(workspace.deps))

Installed(w, e) == [w EXCEPT !.installs = @ + 1, !.installedAfter = Len(w.ran)]

\* after the loop: runInstall() when the dependencies differ, then the return
Return ==
  /\ AfterLoop
  /\ exec' = [exec EXCEPT !.pc = "returned"]
  /\ workspace' = IF NeedsInstall THEN Installed(workspace, exec) ELSE workspace
  /\ UNCHANGED <<planner, fetcher, parser, resolver, installer>>

\* ... runInstall() throws
InstallThrew ==
  /\ AfterLoop
  /\ NeedsInstall
  /\ exec' = [exec EXCEPT !.pc = "install threw"]
  /\ workspace' = Installed(workspace, exec)
  /\ UNCHANGED <<planner, fetcher, parser, resolver, installer>>

InitRunner ==
  /\ run = Len(Runs)
  /\ NewMigrator
  /\ NewFetcher
  /\ NoParser
  /\ NoResolver
  /\ \E list \in MigrationLists, shouldCreateCommits \in BOOLEAN :
       exec = Called(Named(list), shouldCreateCommits, DepsAsPlanned)
  /\ workspace = Untouched(DepsAsPlanned)
  /\ NoInstaller

NextRunner ==
  \/ MigrationNoChanges
  \/ \E deps \in DepsValues : MigrationChanged(deps)
  \/ \E deps \in DepsValues, sha \in {"sha", "null"} : MigrationCommitted(deps, sha)
  \/ \E deps \in DepsValues : MigrationNotCommitted(deps)
  \/ MigrationThrew
  \/ Return
  \/ InstallThrew

SpecRunner == InitRunner /\ [][NextRunner]_vars

\* ------------------------------------------------------------------------
\* installPlugins (configure-plugins.ts): the init generator of each requested
\* plugin is run in turn. Whether a plugin has an init generator, and whether
\* its run succeeds, is outside the program.

MaxPlugins == 3

KnownPlugins == <<"@nx/js", "@nx/vite", "@nx/jest", "@nx/eslint">>

PluginNames ==
  {KnownPlugins[i] :
     i \in 1..(IF MaxPlugins < Len(KnownPlugins) THEN MaxPlugins ELSE Len(KnownPlugins))}

\* the lists of plugins to install: each plugin is requested once
PluginLists ==
  {s \in UNION {[1..n -> PluginNames] : n \in 0..Cardinality(PluginNames)} :
     \A i, j \in 1..Len(s) : s[i] = s[j] => i = j}

\* what looking up and running a plugin's init generator comes to: it ran, the
\* plugin has none (getGeneratorInformation throws), or its run failed
\* (execSync throws)
InitOutcomes == {"ran", "absent", "failed"}

CannotFindGenerator == Error(<<"Cannot find generator">>)
CommandFailed == Error(<<"Command failed">>)

\* the error raised inside installPlugin's try block
InitGeneratorError(outcome) ==
  IF outcome = "absent" THEN CannotFindGenerator
  ELSE IF outcome = "failed" THEN CommandFailed
  ELSE NoError

\* installPlugin: whatever is raised inside the try block is caught, logged as
\* a missing init generator, and the function returns
installPlugin(plugin, outcome) ==
  LET e == InitGeneratorError(outcome) IN
  IF e # NoError
  THEN [thrown |-> NoError, logged |-> <<plugin>>]
  ELSE [thrown |-> NoError, logged |-> <<>>]

InitRun(plugin, outcome, r) ==
  [plugin |-> plugin, outcome |-> outcome, raised |-> InitGeneratorError(outcome),
   logged |-> r.logged # <<>>]

PluginsReturned(succeeded, failed) ==
  [pc |-> "returned", succeededPlugins |-> succeeded, failedPlugins |-> failed]

\* one turn of the loop of installPlugins
InstallNextPlugin(outcome) ==
  /\ installation = NotInstalling
  /\ position <= Len(plugins)
  /\ LET plugin == plugins[position]
         r == installPlugin(plugin, outcome)
     IN  /\ IF r.thrown = NoError
            THEN /\ succeededPlugins' = Append(succeededPlugins, plugin)
                 /\ UNCHANGED failedPlugins
            ELSE /\ failedPlugins' = Put(failedPlugins, [name |-> plugin, error |-> r.thrown])
                 /\ UNCHANGED succeededPlugins
         /\ initRuns' = Append(initRuns, InitRun(plugin, outcome, r))
  /\ position' = position + 1
  /\ UNCHANGED <<plugins, installation>>
  /\ UNCHANGED <<planner, fetcher, parser, resolver, runner>>

\* installPlugins returns: at once for an empty list, else after the loop
InstallPluginsReturn ==
  /\ installation = NotInstalling
  /\ position > Len(plugins)
  /\ installation' = IF plugins = <<>> THEN PluginsReturned(<<>>, <<>>)
                     ELSE PluginsReturned(succeededPlugins, failedPlugins)
  /\ UNCHANGED <<plugins, position, succeededPlugins, failedPlugins, initRuns>>
  /\ UNCHANGED <<planner, fetcher, parser, resolver, runner>>

InitInstaller ==
  /\ run = Len(Runs)
  /\ NewMigrator
  /\ NewFetcher
  /\ NoParser
  /\ NoResolver
  /\ NoRunner
  /\ plugins \in PluginLists
  /\ position = 1
  /\ succeededPlugins = <<>>
  /\ failedPlugins = <<>>
  /\ initRuns = <<>>
  /\ installation = NotInstalling

NextInstaller ==
  \/ \E outcome \in InitOutcomes : InstallNextPlugin(outcome)
  \/ InstallPluginsReturn

SpecInstaller == InitInstaller /\ [][NextInstaller]_vars

\* ------------------------------------------------------------------------
\* Properties of the fetcher

Resolution(i) == <<promises[i].key[1], promises[i].resolved>>

SameResolution(i, j) ==
  /\ promises[i].resolved # Null
  /\ Resolution(i) = Resolution(j)

\* C15: the registry manifest lookup is started at most once for each
\* package at a resolved version; the calls with one request key get one
\* promise; and the requests of a package whose versions resolved to the
\* same version obtain the same manifest object.
C15_OneLookupPerResolvedVersion ==
  /\ \A k \in FetchKeys : lookups[k] <= 1
  /\ \A c, d \in 1..Len(calls) :
       calls[c].key = calls[d].key => calls[c].promise = calls[d].promise
  /\ \A i, j \in 1..Len(promises) :
       /\ SameResolution(i, j)
       /\ promises[i].pc = "resolved"
       /\ promises[j].pc = "resolved"
       => promises[i].res = promises[j].res

\* "a@latest" was requested twice and "a@2.0.0" once; the two promises have
\* both resolved, with the manifest of the one registry lookup of a at 2.0.0
C15_TagAndVersionCoalesced ==
  /\ \E c, d \in 1..Len(calls) : c # d /\ calls[c].key = calls[d].key
  /\ \E i, j \in 1..Len(promises) :
       /\ i # j
       /\ SameResolution(i, j)
       /\ promises[i].pc = "resolved"
       /\ promises[j].pc = "resolved"
       /\ promises[i].res.via = "registry"
       /\ promises[j].follows = i
       /\ lookups[Resolution(i)] = 1

\* the install path has been entered once, or is about to be: the
\* directory of the download is being removed first
FellBack(pr) ==
  IF pr.pc = "thrown" THEN pr.installs = 0
  ELSE /\ pr.installs = 1
       /\ pr.pc \in {"adding", "installed", "install failed", "resolved", "rejected"}

ByInstall(pr) == pr.pc = "resolved" /\ pr.res.via = "install" /\ pr.installs = 1

InstallFailed(pr) == pr.pc = "rejected" /\ pr.err = "install failed" /\ pr.installs = 1

\* C16: a fetch whose registry path failed (version resolution, view, pack
\* or extraction, or the fetch whose promise it took from the cache) runs
\* the temporary install for its request; a fetch rejects only when that
\* install failed; and a fetch whose registry path did not fail installs
\* nothing.
C16_InstallAfterRegistryFailure ==
  \A i \in 1..Len(promises) :
    /\ promises[i].faults # {} => FellBack(promises[i])
    /\ promises[i].faults = {} => promises[i].installs = 0
    /\ promises[i].pc = "rejected" =>
         promises[i].faults # {} /\ InstallFailed(promises[i])

\* one fetch resolved by the install after its extraction failed, and
\* another rejected by a failed install after its view failed
C16_FallbackResolvedAndRejected ==
  \E i, j \in 1..Len(promises) :
    /\ "extract" \in promises[i].faults
    /\ ByInstall(promises[i])
    /\ "view" \in promises[j].faults
    /\ InstallFailed(promises[j])

\* the declared migrations file could not be packed, extracted or read
FileUnreadable(pr) == pr.faults \cap {"pack", "extract"} # {}

\* C17 as stated: a fetch whose declared migrations file could not be
\* extracted or read fails with the error "Failed to find migrations file".
C17_FailsWithMigrationsFileMissing ==
  \A i \in 1..Len(promises) :
    "extract" \in promises[i].faults /\ Settled(promises[i]) =>
      promises[i].pc = "rejected" /\ promises[i].err = MigrationsFileMissing

\* C17, amended: when the declared migrations file cannot be extracted or
\* read, "Failed to find migrations file" is thrown inside the fetcher and
\* caught by it: the fetch runs the temporary install and settles with the
\* outcome of the install; no fetch fails with that error.
C17_MigrationsFileMissingIsCaught ==
  \A i \in 1..Len(promises) :
    /\ promises[i].err # MigrationsFileMissing
    /\ FileUnreadable(promises[i]) =>
         /\ MigrationsFileMissing \in promises[i].raised
         /\ FellBack(promises[i])
         /\ Settled(promises[i]) => ByInstall(promises[i]) \/ InstallFailed(promises[i])

\* the extraction of a fetch failed, the error was thrown, and the fetch has
\* resolved with the manifest of the install
C17_UnreadableFileResolvedByInstall ==
  \E i \in 1..Len(promises) :
    /\ "extract" \in promises[i].faults
    /\ MigrationsFileMissing \in promises[i].raised
    /\ ByInstall(promises[i])

\* the directories of a chain at each of its positions
DirsAt(pc) ==
  IF pc \in {"pack", "extract", "cleanup", "thrown"} THEN {"download"}
  ELSE IF pc \in {"adding", "installed", "install failed"} THEN {"install"}
  ELSE {}

\* C18: the temporary directory of the download exists only while
\* downloadPackageMigrationsFromRegistry runs, that of the install only while
\* getPackageMigrationsUsingInstall runs; a settled fetch has none.
C18_NoDirectoryOutlivesItsOperation ==
  \A i \in 1..Len(promises) :
    /\ promises[i].dirs = DirsAt(promises[i].pc)
    /\ Settled(promises[i]) => promises[i].dirs = {}

\* a fetch that created both directories (its pack failed, then its install
\* failed) has rejected and has neither
C18_BothDirectoriesRemovedOnFailure ==
  \E i \in 1..Len(promises) :
    /\ "pack" \in promises[i].faults
    /\ MigrationsFileMissing \in promises[i].raised
    /\ InstallFailed(promises[i])
    /\ promises[i].dirs = {}

\* ------------------------------------------------------------------------
\* Properties of the options parser

RunOf(path) == [type |-> "runMigrations", runMigrations |-> path]

\* C19 as stated: parseMigrationsOptions returns the RunMigrations variant
\* whenever the runMigrations key is present, with the path "migrations.json"
\* when its value is the empty string, and the GenerateMigrations variant only
\* when the key is absent.
C19_RunMigrationsIffKeyPresent ==
  [][/\ options.runMigrations.present => parsed'.type = "runMigrations"
     /\ options.runMigrations = String("") => parsed' = RunOf("migrations.json")
     /\ parsed'.type = "generateMigrations" => ~options.runMigrations.present]_vars

\* C19, amended: parseMigrationsOptions returns the RunMigrations variant
\* exactly when the value of runMigrations is a non-empty string, with that
\* path, or the empty string, with the path "migrations.json"; when the key
\* is absent or its value is otherwise falsy it takes the generate branch,
\* which returns the GenerateMigrations variant or throws.
C19_RunMigrationsIffTruthyOrEmpty ==
  [][/\ options.runMigrations = String("") => parsed' = RunOf("migrations.json")
     /\ options.runMigrations.string /\ options.runMigrations.text # "" =>
          parsed' = RunOf(options.runMigrations.text)
     /\ ~options.runMigrations.string =>
          parsed'.type \in {"generateMigrations", "error"}]_vars

\* the key was present with a falsy value that is not the empty string, and
\* parseMigrationsOptions returned the GenerateMigrations variant
C19_PresentFalsyGenerates ==
  /\ options.runMigrations = NotAString
  /\ parsed.type = "generateMigrations"

\* the version a bare version text stands for after normalization
Normalized(v) == IF v \in {LATEST, NEXT} THEN v ELSE normalizeVersion(v)

AtLeastBeta(v) == Compare(v, PreVer(14, 0, 0, 1)) >= 0

Bare(v) == options.packageAndVersion = <<Num(v)>>

Chose(targetPackage, targetVersion) ==
  parsed.targetPackage = targetPackage /\ parsed.targetVersion = targetVersion

\* C20: for a packageAndVersion that is a bare version the parser returns the
\* normalized version, with the package nx when the version is a tag or at
\* least 14.0.0-beta.0, and @nrwl/workspace otherwise: "13.9.0" gives
\* @nrwl/workspace at 13.9.0, "16.0.0" nx at 16.0.0, "latest" nx at latest.
C20_BareVersionTarget ==
  parsed.type = "generateMigrations" =>
    /\ \A v \in BareVersions :
         Bare(v) /\ BareVersion(<<Num(v)>>) =>
           Chose(IF v \in {LATEST, NEXT} \/ AtLeastBeta(Normalized(v))
                 THEN TextNx ELSE TextNrwlWorkspace,
                 Normalized(v))
    /\ Bare(Ver(13, 9, 0)) => Chose(TextNrwlWorkspace, Ver(13, 9, 0))
    /\ Bare(Ver(16, 0, 0)) => Chose(TextNx, Ver(16, 0, 0))
    /\ Bare(LATEST) => Chose(TextNx, LATEST)

\* "13.9" was parsed to @nrwl/workspace at 13.9.0
C20_ShorthandBelowBoundary ==
  /\ parsed.type = "generateMigrations"
  /\ Bare(Short2(13, 9))
  /\ Chose(TextNrwlWorkspace, Ver(13, 9, 0))

\* ------------------------------------------------------------------------
\* Properties of the installed-version resolver

\* the answer the resolver owes for a name, given the overrides of the call
\* and the versions first read: the override, else the version first read,
\* else (the lookup failed) null
Owed(packageName) ==
  IF asked.overrides[packageName] # Null THEN asked.overrides[packageName]
  ELSE first[packageName]

\* the lookup of the name of the last call failed: no override, nothing read
LookupFailed ==
  asked.overrides[asked.packageName] = Null /\ first[asked.packageName] = Null

\* C21: a call of the resolver returns the override of the name when the
\* overrides of the call have one, whatever is cached; otherwise the version
\* the first successful lookup of the name read; when the lookup fails, for
\* nx what the same query gives for @nrwl/workspace, and for another name
\* null.  The cache holds the version first read and nothing else.
C21_OverrideThenFirstLookup ==
  /\ cache = first
  /\ asked.called =>
       asked.result = IF ~LookupFailed THEN Owed(asked.packageName)
                      ELSE IF asked.packageName = "nx" THEN Owed("@nrwl/workspace")
                      ELSE Null

\* the module a was read at one version and replaced by another; the last
\* call, for a with an override, returned the override, and the cache still
\* holds the version first read
C21_OverrideDespiteCache ==
  /\ asked.called
  /\ asked.packageName = "a"
  /\ first["a"] # Null
  /\ modules["a"] \notin {Null, first["a"]}
  /\ asked.overrides["a"] = OverrideVersion
  /\ asked.result = OverrideVersion
  /\ cache["a"] = first["a"]

\* ------------------------------------------------------------------------
\* Properties of the migration runner

MadeNoChanges(m) == workspace.ran[m.name].outcome = "no changes"

\* the migrations were run one after the other from the first on, each by
\* the function of its cli, and none twice
RanInListOrder ==
  /\ Len(workspace.ran) <= Len(exec.migrations)
  /\ \A k \in 1..Len(workspace.ran) :
       /\ workspace.ran[k].name = exec.migrations[k].name
       /\ workspace.ran[k].by = RunnerOf(exec.migrations[k])

\* C22: executeMigrations runs the migrations one at a time in list order,
\* and the list it returns is the subsequence of the migrations that made no
\* changes, in list order; when only the first made none, it has one entry.
C22_NoChangesSubsequence ==
  /\ RanInListOrder
  /\ exec.pc = "returned" =>
       /\ Len(workspace.ran) = Len(exec.migrations)
       /\ exec.migrationsWithNoChanges = SelectSeq(exec.migrations, MadeNoChanges)
       /\ {k \in 1..Len(workspace.ran) : workspace.ran[k].outcome = "no changes"} = {1}
            => exec.migrationsWithNoChanges = <<exec.migrations[1]>>

\* three migrations were run, only the first made no changes, and the list
\* returned holds the first alone
C22_OnlyFirstMadeNoChanges ==
  /\ exec.pc = "returned"
  /\ Len(exec.migrations) = 3
  /\ workspace.ran[1].outcome = "no changes"
  /\ workspace.ran[2].outcome = "changes"
  /\ workspace.ran[3].outcome = "changes"
  /\ exec.migrationsWithNoChanges = <<exec.migrations[1]>>

\* the loop is over without a migration having thrown
LoopDone == exec.pc \in {"returned", "install threw"}

ManifestDiffers ==
  getStringifiedPackageJsonDeps(workspace.deps) #
    getStringifiedPackageJsonDeps(DepsAsPlanned)

\* C23: the install of executeMigrations runs at most once, after the last
\* migration of the list has completed, and, the loop being over, exactly
\* when the stringified dependencies of the manifest differ from those
\* before the first migration.
C23_InstallOnceIffDepsDiffer ==
  /\ workspace.installs <= 1
  /\ workspace.installs = 1 =>
       LoopDone /\ workspace.installedAfter = Len(exec.migrations)
  /\ LoopDone => (workspace.installs = 1 <=> ManifestDiffers)

\* the migrations only reordered the dependencies; executeMigrations
\* returned and the install ran once
C23_InstallAfterReorder ==
  /\ exec.pc = "returned"
  /\ Len(workspace.ran) >= 2
  /\ workspace.deps = DepsReordered
  /\ workspace.installs = 1

Committed(k) == \E c \in 1..Len(workspace.commits) : workspace.commits[c].name = k

\* C24: when a migration throws, executeMigrations throws: the migration that
\* threw is the last one run, no commit is made for it, and the install is
\* not run.
C24_ThrowStopsTheRun ==
  /\ \A k \in 1..Len(workspace.ran) :
       workspace.ran[k].outcome = "threw" =>
         /\ exec.pc = "threw"
         /\ exec.error = k
         /\ k = Len(workspace.ran)
         /\ ~Committed(k)
         /\ workspace.installs = 0
  /\ exec.pc = "threw" =>
       workspace.ran[Len(workspace.ran)].outcome = "threw"

\* with commits on, the first migration was committed and the second,
\* delegated to the adapter, threw: the third was not run
C24_SecondOfThreeThrew ==
  /\ exec.pc = "threw"
  /\ Len(exec.migrations) = 3
  /\ Len(workspace.ran) = 2
  /\ exec.migrations[2].cli = "angular"
  /\ workspace.ran[2].outcome = "threw"
  /\ Committed(1)

\* C25: a commit that fails does not end the run: executeMigrations does not
\* throw for that migration, and once it has returned every migration of the
\* list has been run, in order.
C25_CommitFailureDoesNotAbort ==
  \A k \in 1..Len(workspace.ran) :
    workspace.ran[k].outcome = "commit failed" =>
      /\ exec.shouldCreateCommits
      /\ ~Committed(k)
      /\ exec.error # k
      /\ exec.pc = "loop" => exec.i > k
      /\ exec.pc = "returned" =>
           RanInListOrder /\ Len(workspace.ran) = Len(exec.migrations)

\* the commit of the first of three migrations failed, the other two were
\* run and committed, and executeMigrations returned
C25_ReturnedAfterFailedCommit ==
  /\ exec.pc = "returned"
  /\ Len(workspace.ran) = 3
  /\ workspace.ran[1].outcome = "commit failed"
  /\ Committed(2)
  /\ Committed(3)

\* ------------------------------------------------------------------------
\* Properties of the planner's failures, prompts and check groups

\* the error has the message of `of` followed by the hint
HasHint(e, of) == e.message = of.message \o <<RunMigrateWithTo>>

\* C26: when a fetch fails during planning, updatePackageJson throws a new
\* error made of the message and the --to hint if the message contains "No
\* matching version", and the error itself otherwise; either way planning
\* has ended without a migration list and nothing is written.
C26_FetchFailureReraised ==
  status = "failed" =>
    /\ IF Includes(failure.rejected, NoMatchingVersion)
       THEN HasHint(failure.thrown, failure.rejected)
       ELSE failure.thrown = failure.rejected
    /\ ~CanStep
    /\ migrations = <<>>
    /\ files.outcome = "none"

\* the fetch of a dependency's manifest, made after the plan has an entry,
\* failed for a version that does not exist, and the hint was added
C26_NoMatchingVersionHinted ==
  /\ status = "failed"
  /\ packageJsonUpdates # <<>>
  /\ failure.rejected = VersionNotFound
  /\ HasHint(failure.thrown, VersionNotFound)

\* the package has no installed version: no override, no module under root
NotInstalled(p) == getPkgVersion(overrides, p) = Null

PlannedAt(p) == {i \in 1..Len(packageJsonUpdates) : packageJsonUpdates[i].name = p}
ProposedAt(p) == {k \in 1..Len(proposals) : proposals[k][1] = p}

\* no call of populate... or of createMigrateJson's callback has called fetch
\* for p
NeverFetched(p) ==
  \A t \in 1..Len(tasks) : tasks[t].kind \in {"populate", "gen"} => tasks[t].pkg # p

\* nothing of p's manifest has been used: p has not passed the pruning check,
\* none of its update entries was kept, its package group was not normalized
NotDescended(p) ==
  /\ \A i \in 1..Len(expansions) : expansions[i][1] # p
  /\ \A c \in contributed : c.package # p
  /\ \A r \in retained : r.package # p
  /\ \A n \in normalized : n.parent # p

\* C27: a package without installed version that was proposed is in the plan
\* at a version proposed for it; fetch has not been called for it in either
\* phase, nothing of its manifest has been used, and the migration list has
\* no generator of it.
C27_NotInstalledRecordedNotDescended ==
  \A p \in Packages :
    NotInstalled(p) =>
      /\ ProposedAt(p) # {} =>
           \E i \in PlannedAt(p), k \in ProposedAt(p) :
             packageJsonUpdates[i].version = proposals[k][2]
      /\ NeverFetched(p)
      /\ NotDescended(p)
      /\ \A i \in 1..Len(migrations) : migrations[i].package # p

\* the plan is complete with migrations to run, and it has a package without
\* installed version whose published manifest has generators, update entries
\* and a package group
C27_NotInstalledWithManifestPlanned ==
  /\ status = "done"
  /\ migrations # <<>>
  /\ \E p \in Packages :
       /\ NotInstalled(p)
       /\ PlannedAt(p) # {}
       /\ Sc.man[p].generators # <<>>
       /\ Sc.man[p].packageJsonUpdates # <<>>
       /\ Sc.man[p].packageGroup # NoGroup

BuildTasks == {t \in 1..Len(tasks) : tasks[t].kind = "build"}

\* the walked entries of the build call t, and the update entry of one
WalkOf(t) == tasks[t].walk
EntryOf(t, w) == tasks[t].groups[w.gi].updates[w.ei]

\* the entry's packages were merged into filteredUpdates: its requires were
\* met and, if the user was asked, the answer was yes
Merged(w) == w.met /\ (w.asked => w.answer = "yes")

\* filteredUpdates after the walked entry
ExtraAfter(t, w) == IF Merged(w) THEN PutAll(w.extra, EntryOf(t, w).packages) ELSE w.extra

\* the entries of each group are walked from the first on, one after the
\* other, and a group is begun only when the one before is through
InDeclaredOrder(t) ==
  \A k \in 1..Len(WalkOf(t)) :
    IF k > 1 /\ WalkOf(t)[k - 1].gi = WalkOf(t)[k].gi
    THEN WalkOf(t)[k].ei = WalkOf(t)[k - 1].ei + 1
    ELSE /\ WalkOf(t)[k].ei = 1
         /\ k > 1 => /\ WalkOf(t)[k - 1].gi < WalkOf(t)[k].gi
                     /\ WalkOf(t)[k - 1].ei = Len(tasks[t].groups[WalkOf(t)[k - 1].gi].updates)

\* filteredUpdates is empty at the first entry of a group and holds, at a
\* later one, what it held at the entry before plus that entry's packages if
\* they were merged
ExtraFromEarlierMerged(t) ==
  \A k \in 1..Len(WalkOf(t)) :
    WalkOf(t)[k].extra =
      IF WalkOf(t)[k].ei = 1 THEN <<>> ELSE ExtraAfter(t, WalkOf(t)[k - 1])

\* each requirement of a walked entry was judged on the installed versions,
\* the plan at that moment and filteredUpdates
JudgedOnPlanAndExtra(t) ==
  \A k \in 1..Len(WalkOf(t)) :
    WalkOf(t)[k].met =
      \A i \in 1..Len(EntryOf(t, WalkOf(t)[k]).requires) :
        \/ MetBy(WalkOf(t)[k].plan, WalkOf(t)[k].ov, EntryOf(t, WalkOf(t)[k]).requires[i])
        \/ MetByEarlier(WalkOf(t)[k].extra, EntryOf(t, WalkOf(t)[k]).requires[i])

\* every package the entry requires was merged from an earlier entry of the
\* group
RequiresMergedPackages(t, w) ==
  /\ EntryOf(t, w).requires # <<>>
  /\ \A i \in 1..Len(EntryOf(t, w).requires) : Has(w.extra, EntryOf(t, w).requires[i].pkg)

\* C28 as stated: the entries of a check group are walked in declared order
\* on the plan and the packages merged from the earlier entries of the group,
\* and the requires of an entry that names only packages merged from earlier
\* entries are met.
C28_RequiresOnMergedPackageMet ==
  \A t \in BuildTasks :
    /\ InDeclaredOrder(t)
    /\ ExtraFromEarlierMerged(t)
    /\ \A k \in 1..Len(WalkOf(t)) :
         RequiresMergedPackages(t, WalkOf(t)[k]) => WalkOf(t)[k].met

\* C28, amended: the entries of a check group are walked in declared order;
\* the requires of an entry are met exactly when each of them holds of the
\* installed version, of the planned version at that moment, or of the
\* version last merged for the package from the earlier accepted entries of
\* the group; a merged version outside the range does not meet it.
C28_RequiresJudgedOnPlanAndMerged ==
  \A t \in BuildTasks :
    /\ InDeclaredOrder(t)
    /\ ExtraFromEarlierMerged(t)
    /\ JudgedOnPlanAndExtra(t)

\* one walk in which the requires of an entry were met only by a package
\* merged from an earlier entry, and the requires of a later entry on the
\* same package were not met, the version merged meanwhile being out of range
C28_MetAndUnmetByMergedPackage ==
  \E t \in BuildTasks : \E j, k \in 1..Len(WalkOf(t)) :
    /\ j < k
    /\ WalkOf(t)[j].gi = WalkOf(t)[k].gi
    /\ RequiresMergedPackages(t, WalkOf(t)[j])
    /\ WalkOf(t)[j].met
    /\ \A i \in 1..Len(EntryOf(t, WalkOf(t)[j]).requires) :
         ~MetBy(WalkOf(t)[j].plan, WalkOf(t)[j].ov, EntryOf(t, WalkOf(t)[j]).requires[i])
    /\ RequiresMergedPackages(t, WalkOf(t)[k])
    /\ ~WalkOf(t)[k].met

\* the user was asked about the walked entry and said no
Declined(w) == w.asked /\ w.answer = "no"

\* filteredUpdates as the walk left the walked entry k of t: what the next
\* entry of the group found, or what the calls for the group were made from
LeftWith(t, k, extra) ==
  IF k < Len(WalkOf(t))
  THEN WalkOf(t)[k + 1].gi = WalkOf(t)[k].gi => WalkOf(t)[k + 1].extra = extra
  ELSE tasks[t].pc = "join" => tasks[t].acc = extra

\* the walk has gone on past the walked entry k of t, or the call is ready to
\* resume after the answer
GoneOn(t, k) ==
  IF k < Len(WalkOf(t))
  THEN \/ /\ WalkOf(t)[k + 1].gi = WalkOf(t)[k].gi
          /\ WalkOf(t)[k + 1].ei = WalkOf(t)[k].ei + 1
       \/ /\ WalkOf(t)[k + 1].gi > WalkOf(t)[k].gi
          /\ WalkOf(t)[k].ei = Len(tasks[t].groups[WalkOf(t)[k].gi].updates)
  ELSE \/ tasks[t].pc = "answered"
       \/ /\ WalkOf(t)[k].ei = Len(tasks[t].groups[WalkOf(t)[k].gi].updates)
          /\ tasks[t].pc \in {"join", "done"}

\* C29: in interactive mode, once the user has declined the prompt of an
\* update entry, filteredUpdates is left as the entry found it, the walk goes
\* on with the next entry of the group (or, after the last, with the calls
\* for what was merged), and the plan fails only if a fetch is rejected.
C29_DeclinedEntryNotMerged ==
  /\ \A t \in BuildTasks : \A k \in 1..Len(WalkOf(t)) :
       Declined(WalkOf(t)[k]) =>
         /\ interactive
         /\ LeftWith(t, k, WalkOf(t)[k].extra)
         /\ GoneOn(t, k)
  /\ status = "failed" => failure.rejected # NoError

\* a plan has returned in which the user declined an entry and a later entry
\* of the same group was merged
C29_ReturnedAfterDecline ==
  /\ Returned
  /\ \E t \in BuildTasks : \E j, k \in 1..Len(WalkOf(t)) :
       /\ j < k
       /\ WalkOf(t)[j].gi = WalkOf(t)[k].gi
       /\ Declined(WalkOf(t)[j])
       /\ EntryOf(t, WalkOf(t)[j]).packages # <<>>
       /\ Merged(WalkOf(t)[k])

\* the update (name, version) was handed to populate...: the call waits for
\* its fetch or has gone on, or the package, not being installed, was proposed
HandedOn(u) ==
  \/ \E t \in 1..Len(tasks) :
       /\ tasks[t].kind = "populate"
       /\ tasks[t].pkg = u.name
       /\ tasks[t].target.version = u.version
  \/ \E k \in 1..Len(proposals) : proposals[k] = <<u.name, u.version>>

\* a manifest whose kept entries make no check group when the mode is not
\* interactive: none has requires
NoRequires(r) == \A i \in 1..Len(r.kept) : r.kept[i].requires = <<>>
HasPrompt(r) == \E i \in 1..Len(r.kept) : r.kept[i].xprompt

\* C30: when interactive is false no call waits for an answer and no walked
\* entry was asked about; a walked entry is merged exactly when its requires
\* are met, and the packages of the entries of a manifest without requires
\* are all handed on, x-prompt or not.
C30_NeverAsksWhenNotInteractive ==
  ~interactive =>
    /\ \A t \in 1..Len(tasks) : tasks[t].pc \notin {"prompt", "answered"}
    /\ \A t \in BuildTasks : \A k \in 1..Len(WalkOf(t)) :
         /\ ~WalkOf(t)[k].asked
         /\ WalkOf(t)[k].answer = "none"
         /\ LeftWith(t, k, IF WalkOf(t)[k].met
                           THEN PutAll(WalkOf(t)[k].extra, EntryOf(t, WalkOf(t)[k]).packages)
                           ELSE WalkOf(t)[k].extra)
    /\ \A r \in retained :
         NoRequires(r) =>
           \A j \in 1..Len(MergePackages(<<>>, r.kept)) :
             HandedOn(MergePackages(<<>>, r.kept)[j])

\* a plan that is not interactive has returned; an entry with an x-prompt
\* and requires was merged by the walker, and the packages of an entry with
\* an x-prompt of a manifest without requires were handed on
C30_PromptEntriesApplied ==
  /\ ~interactive
  /\ Returned
  /\ \E t \in BuildTasks : \E k \in 1..Len(WalkOf(t)) :
       /\ EntryOf(t, WalkOf(t)[k]).xprompt
       /\ EntryOf(t, WalkOf(t)[k]).requires # <<>>
       /\ Merged(WalkOf(t)[k])

\* ... the same for a manifest whose entries have no requires
C30_PromptEntriesHandedOn ==
  /\ ~interactive
  /\ Returned
  /\ \E r \in retained : NoRequires(r) /\ HasPrompt(r)

\* ------------------------------------------------------------------------
\* Properties of the package group's entry, the version operands, the
\* option maps and the prompts

\* the package group a filter call had to do with, as the manifest declares
\* it (or the frozen legacy group), and the entry made of it: the last one
\* the filter was given
DeclaredGroup(f) == EffectiveGroup(f.package, f.target, Sc.man[f.package].packageGroup)
GroupEntryOf(f) == f.given[Len(f.given)]

\* the version normalizePackageGroup gives a member: the target version for
\* a bare name, else the one the group declares
MemberVersion(f, item) == IF item.bare THEN f.target ELSE item.version

\* the entry has one package per member of the group and nothing else, none
\* of them to be added to the manifest
MembersOnly(f) ==
  /\ Len(f.given) = Len(Sc.man[f.package].packageJsonUpdates) + 1
  /\ GroupEntryOf(f).version = f.target
  /\ GroupEntryOf(f).hasPackages
  /\ GroupEntryOf(f).requires = <<>>
  /\ ~GroupEntryOf(f).xprompt
  /\ \A i \in 1..Len(DeclaredGroup(f).items) :
       Has(GroupEntryOf(f).packages, DeclaredGroup(f).items[i].package)
  /\ \A h \in 1..Len(GroupEntryOf(f).packages) :
       /\ \E i \in 1..Len(DeclaredGroup(f).items) :
            DeclaredGroup(f).items[i].package = GroupEntryOf(f).packages[h].name
       /\ ~GroupEntryOf(f).packages[h].alwaysAddToPackageJson
       /\ GroupEntryOf(f).packages[h].addToPackageJson = NoAdd
       /\ GroupEntryOf(f).packages[h].ifPackageInstalled = ""

\* C31 as stated: the entry made of a package group has the resolved version
\* and gives every member of the group that version, not to be added.
C31_MembersAtResolvedVersion ==
  \A f \in retained :
    DeclaredGroup(f).kind # "none" =>
      /\ MembersOnly(f)
      /\ \A h \in 1..Len(GroupEntryOf(f).packages) :
           GroupEntryOf(f).packages[h].version = f.target

\* C31, amended: the entry made of a package group has the resolved version
\* and one package per member, not to be added; a member the group names by
\* a bare string gets the resolved version, any other member the version
\* the group declares for it ("*", a tag or a concrete version).
C31_MembersAtDeclaredVersion ==
  \A f \in retained :
    DeclaredGroup(f).kind # "none" =>
      /\ MembersOnly(f)
      /\ \A h \in 1..Len(GroupEntryOf(f).packages) :
           \E i \in 1..Len(DeclaredGroup(f).items) :
             /\ DeclaredGroup(f).items[i].package = GroupEntryOf(f).packages[h].name
             /\ GroupEntryOf(f).packages[h].version =
                  MemberVersion(f, DeclaredGroup(f).items[i])

\* a filter call was given the entry of a group with a bare member, a member
\* at "*" and a member pinned to a version, and the entry has "*" for a member
C31_BareStarAndPinnedMembers ==
  \E f \in retained :
    /\ DeclaredGroup(f).kind # "none"
    /\ \E i, j, k \in 1..Len(DeclaredGroup(f).items) :
         /\ DeclaredGroup(f).items[i].bare
         /\ ~DeclaredGroup(f).items[j].bare /\ DeclaredGroup(f).items[j].version = STAR
         /\ ~DeclaredGroup(f).items[k].bare
         /\ Valid(DeclaredGroup(f).items[k].version)
    /\ \E h \in 1..Len(GroupEntryOf(f).packages) : GroupEntryOf(f).packages[h].version = STAR

\* the key of migrationsCache for the version the request of promise i
\* resolves to at the registry
ResolvedKey(i) ==
  <<promises[i].key[1], resolvePackageVersion(promises[i].key[1], promises[i].key[2])>>

\* C32 as stated: every promise nxMigrateFetcher has handed back is cached
\* under its request key and under the key of the resolved version.
C32_BothKeysWhenHandedBack ==
  \A c \in 1..Len(calls) :
    /\ migrationsCache[calls[c].key] # 0
    /\ migrationsCache[ResolvedKey(calls[c].promise)] # 0

\* C32, amended: a promise is cached under its request key from the call
\* on; the key of the resolved version holds a promise once the version has
\* been resolved, which is before the promise settles by the registry path,
\* and it holds this promise unless another one was there first.  A promise
\* whose version was not resolved is cached under its request key only.
C32_ResolvedKeyOnceResolved ==
  \A i \in 1..Len(promises) :
    /\ migrationsCache[promises[i].key] = i
    /\ promises[i].resolved # Null =>
         /\ promises[i].resolved = ResolvedKey(i)[2]
         /\ IF promises[i].follows = 0
            THEN migrationsCache[ResolvedKey(i)] = i
            ELSE migrationsCache[ResolvedKey(i)] = promises[i].follows
    /\ promises[i].pc = "resolved" /\ promises[i].res.via = "registry" =>
         promises[i].resolved # Null
    /\ promises[i].resolved = Null /\ ResolvedKey(i) # promises[i].key =>
         migrationsCache[ResolvedKey(i)] # i

\* a promise for a tag has been handed back and is pending, and nothing is
\* cached for the version the tag resolves to; another one, whose version has
\* been resolved, is cached under both keys while the registry is asked for
\* the manifest
C32_OneKeyThenBoth ==
  /\ \E c \in 1..Len(calls) :
       /\ promises[calls[c].promise].pc = "resolving"
       /\ ResolvedKey(calls[c].promise) # calls[c].key
       /\ migrationsCache[calls[c].key] = calls[c].promise
       /\ migrationsCache[ResolvedKey(calls[c].promise)] = 0
  /\ \E i \in 1..Len(promises) :
       /\ promises[i].pc = "view"
       /\ ResolvedKey(i) # promises[i].key
       /\ migrationsCache[promises[i].key] = i
       /\ migrationsCache[ResolvedKey(i)] = i

\* a tag, the wildcard or any other text that is not a number
Wildcard(v) == v.p # <<>> /\ v.p[1] < 0

\* the operands filterPackageJsonUpdates gave Migrator.lte and Migrator.gt for
\* the entries of the call f: the entry's version with the installed version
\* and, that one being lower, with the target version
EntryOperands(f) ==
  {<<f.given[g].version, getPkgVersion(f.ov, f.package)>> :
     g \in {h \in 1..Len(f.given) : f.given[h].hasPackages}}
  \cup
  {<<f.given[g].version, f.target>> :
     g \in {h \in 1..Len(f.given) :
              /\ f.given[h].hasPackages
              /\ ~lte(f.given[h].version, getPkgVersion(f.ov, f.package))}}

\* the package h of the entry g of the call f got as far as the comparison
\* with the collected version
ComparedWithCollected(f, g, h) ==
  /\ KeepEntry(f.ov, f.given[g], f.package, f.target)
  /\ \/ f.given[g].packages[h].ifPackageInstalled = ""
     \/ getPkgVersion(f.ov, f.given[g].packages[h].ifPackageInstalled) # Null
  /\ AddedOrListed(f.given[g].packages[h])
  /\ f.coll[f.given[g].packages[h].name] # Null

\* the operands filterPackageJsonUpdates gave Migrator.gt for the packages
PackageOperands(f) ==
  UNION {{<<f.given[g].packages[h].version, f.coll[f.given[g].packages[h].name]>> :
            h \in {i \in 1..Len(f.given[g].packages) : ComparedWithCollected(f, g, i)}} :
           g \in 1..Len(f.given)}

\* the proposals addPackageJsonUpdate compared with the stored version: the
\* ones for a package proposed before
ComparedProposals ==
  {k \in 1..Len(proposals) : \E j \in 1..(k - 1) : proposals[j][1] = proposals[k][1]}

KeptOrInherited(p) ==
  IF overrides[p] # Null THEN overrides'[p] = overrides[p]
  ELSE overrides'[p] # Null =>
         \E n \in normalized' :
           /\ n.member = p
           /\ n.before = Null
           /\ n.inherited = overrides'[p]
           /\ overrides[n.parent] = n.inherited

\* C34: in the steps of one plan the `to` map stays as given, and every
\* override stays as it is; a package without override gets one only by
\* propagation from the package whose group names it.
C34_OverridesOnlyAdded ==
  [][status' # "init" => /\ to' = to
                         /\ \A p \in Packages : KeptOrInherited(p)]_vars

\* a package has got an override by propagation, and a member of the same
\* group that was given another override by the user has kept it
C34_AddedBesideKept ==
  /\ \E p \in Packages : Opts.from[p] = Null /\ overrides[p] # Null
  /\ \E n \in normalized :
       /\ n.before # Null
       /\ n.before # n.inherited
       /\ overrides[n.member] = n.before
       /\ Opts.from[n.member] = n.before

\* the calls of buildPackageJsonUpdates waiting for the answer to a prompt
PendingPrompts == {t \in 1..Len(tasks) : tasks[t].pc = "prompt"}

\* C35: in interactive mode at most one confirmation prompt is pending at any
\* time, also when the check groups are walked by sub-traversals started in
\* parallel
C35_OnePromptPending == Opts.interactive => Cardinality(PendingPrompts) <= 1

\* C36: when planning fails, generate mode writes nothing: the root manifest
\* holds what it held before, migrations.json is not created, and the error
\* raised out of the plan is raised to the caller
C36_FailedPlanWritesNothing ==
  status = "failed" =>
    /\ files = Disk(Sc)
    /\ ~Written
    /\ failure.thrown # NoError

\* a plan that failed after it had recorded packages
C36_FailedWithPartialPlan ==
  /\ status = "failed"
  /\ packageJsonUpdates # <<>>
  /\ failure.thrown # NoError
  /\ files = Disk(Sc)

\* ------------------------------------------------------------------------
\* Properties of installPlugins

InSucceeded(res, plugin) ==
  \E i \in 1..Len(res.succeededPlugins) : res.succeededPlugins[i] = plugin

InFailed(res, plugin) == Has(res.failedPlugins, plugin)

\* C37: installPlugins reports each requested plugin in exactly one of
\* succeededPlugins and failedPlugins: in succeededPlugins only if its init
\* generator ran without error, in failedPlugins with its error if the run
\* failed; and the plugins after a failed one are processed too
C37_ReportedByOutcome ==
  installation # NotInstalling =>
    /\ Len(initRuns) = Len(plugins)
    /\ \A i \in 1..Len(plugins) :
         /\ initRuns[i].plugin = plugins[i]
         /\ InSucceeded(installation, plugins[i]) # InFailed(installation, plugins[i])
         /\ InSucceeded(installation, plugins[i]) => initRuns[i].outcome # "failed"
         /\ initRuns[i].outcome = "failed" =>
              /\ InFailed(installation, plugins[i])
              /\ installation.failedPlugins[IndexOf(installation.failedPlugins,
                                                      plugins[i])].error = initRuns[i].raised

\* a plugin whose init generator run failed is returned among the succeeded
\* ones, and the plugin after it was processed
C37_FailedRunReportedSucceeded ==
  /\ installation # NotInstalling
  /\ \E i \in 1..Len(plugins) :
       /\ initRuns[i].outcome = "failed"
       /\ initRuns[i].logged
       /\ InSucceeded(installation, plugins[i])
       /\ i < Len(plugins)
  /\ installation.failedPlugins = <<>>

====
